---------------------------- MODULE Setup_proofs ----------------------------
(* Proofs about what is settled before a forward runs, and about the         *)
(* dispatch and combine that need no handles.  Each of the six machines is   *)
(* over variables of its own.                                                *)
(*                                                                           *)
(* FusedPlan: for any ranks, sizes, binaries and number of forwards, the     *)
(* ranks take the same path as long as they read the same chunk table,       *)
(* whatever else of their environments and binaries differs.  That is the    *)
(* one input of the decision that the vote leaves out.                       *)
(*                                                                           *)
(* CompileCache: for any library paths, builds and number of starts, a       *)
(* process and the graph it takes from the cache divide the work alike, as   *)
(* long as nothing is set that the key leaves out and the files stay as they *)
(* are.                                                                      *)
(*                                                                           *)
(* NixlManager, Workspace, Handles: the elastic NIXL group, for any number   *)
(* of ranks and managers; the one-sided FlashInfer workspace, for any        *)
(* stages, ranks and layers; and the handles of the DeepEP and Mori          *)
(* managers, for any layers that a manager of their kind can serve.          *)
(*                                                                           *)
(* NaiveDispatch: for any data-, context- and tensor-parallel sizes, paths,  *)
(* batches and number of layers, every rank gets its own tokens back, each   *)
(* answered once by every rank.                                              *)
EXTENDS FusedPlan, CompileCache, NixlManager, Workspace, Handles, NaiveDispatch,
        FiniteSetTheorems, SequenceTheorems, NumberLemmas, TLAPS

-----------------------------------------------------------------------------
(* The plan: its inductive invariant.                                        *)

Places == {"load", "vote", "rendezvous", "raised", "serve", "kernel", "reduce"}

TypeOK ==
    /\ env \in [Ranks -> Environments]
    /\ calls \in [1..NumCalls -> Sizes]
    /\ pc \in [Ranks -> Places]
    /\ plan \in [Ranks -> [usable : BOOLEAN, fold : BOOLEAN]]
    /\ call \in [Ranks -> Nat \ {0}]

OneTable == \A q, r \in Ranks : env[q].table = env[r].table
OnePlan == \A q, r \in Ranks : plan[q] = plan[r]

\* Only ranks that can all run fused come to the rendezvous, and get a pool.
Voted ==
    \A q, r \in Ranks : pc[r] = "rendezvous" \/ plan[r].usable => Capable(q)

\* A rank in a forward is where its decision, taken now, would send it.
PathTaken ==
    \A r \in Ranks :
        /\ pc[r] = "kernel" => TakesFused(r)
        /\ pc[r] = "reduce" => ~ TakesFused(r)

IInv == TypeOK /\ OneTable /\ OnePlan /\ Voted /\ PathTaken

-----------------------------------------------------------------------------
(* Lemmas.                                                                   *)

\* What a rank decides depends on the table, the plan and the size alone.
LEMMA SameDecision ==
    ASSUME OneTable, OnePlan, NEW q \in Ranks, NEW r \in Ranks, call[q] = call[r]
    PROVE  TakesFused(q) = TakesFused(r)
<1>1. env[q].table = env[r].table
  BY DEF OneTable
<1>2. plan[q] = plan[r]
  BY DEF OnePlan
<1> QED
  BY <1>1, <1>2 DEF TakesFused, ChunksFor, Size

LEMMA InvariantSuffices == IInv => PathsAgree
<1> SUFFICES ASSUME IInv
             PROVE  PathsAgree
  OBVIOUS
<1>1. DecisionUniform
  <2> SUFFICES ASSUME NEW q \in Ranks, NEW r \in Ranks, InForward(q), InForward(r),
                      call[q] = call[r]
               PROVE  pc[q] = pc[r]
    BY DEF DecisionUniform
  <2>1. TakesFused(q) = TakesFused(r)
    BY SameDecision DEF IInv
  <2> QED
    BY <2>1 DEF IInv, PathTaken, InForward
<1>2. PeersCanJoin
  <2> SUFFICES ASSUME NEW q \in Ranks, NEW r \in Ranks, pc[r] = "kernel"
               PROVE  Capable(q) /\ plan[q].usable /\ plan[q].fold = plan[r].fold
    BY DEF PeersCanJoin
  <2>1. plan[r].usable
    BY DEF IInv, PathTaken, TakesFused
  <2> QED
    BY <2>1 DEF IInv, Voted, OnePlan
<1> QED
  BY <1>1, <1>2 DEF PathsAgree

\* Capability is a matter of the environment, which never changes.
LEMMA CapableFixed ==
    ASSUME env' = env, NEW r \in Ranks
    PROVE  Capable(r)' = Capable(r)
  BY DEF Capable, ChunksFor

\* A step that leaves the plan, and a rank's call, leaves the rank's decision.
LEMMA DecisionFixed ==
    ASSUME UNCHANGED << env, calls, plan >>, NEW r \in Ranks, call'[r] = call[r]
    PROVE  TakesFused(r)' = TakesFused(r)
  BY DEF TakesFused, ChunksFor, Size

-----------------------------------------------------------------------------
(* The invariant holds at the start, and every step keeps it.                *)

LEMMA Initially == "table" \notin Local /\ Init => IInv
<1> SUFFICES ASSUME "table" \notin Local, Init
             PROVE  IInv
  OBVIOUS
<1>1. TypeOK
  BY DEF Init, TypeOK, Places, NoPlan
<1>2. OneTable
  <2>1. "table" \in Inputs \ Local
    BY DEF Inputs
  <2> QED
    BY <2>1 DEF Init, OneTable
<1>3. OnePlan /\ Voted /\ PathTaken
  BY DEF Init, OnePlan, Voted, PathTaken, NoPlan
<1> QED
  BY <1>1, <1>2, <1>3 DEF IInv

LEMMA LoadKeeps ==
    ASSUME IInv, NEW p \in Ranks, Load(p)
    PROVE  IInv'
<1>1. UNCHANGED << env, calls, plan, call >>
  BY DEF Load
<1>2. \A r \in Ranks : pc'[r] = pc[r] \/ pc'[r] \in {"serve", "raised", "vote"}
  BY DEF Load, IInv, TypeOK
<1>3. TypeOK'
  BY DEF Load, IInv, TypeOK, Places
<1>4. OneTable' /\ OnePlan'
  BY <1>1 DEF IInv, OneTable, OnePlan
<1>5. Voted'
  BY <1>1, <1>2, CapableFixed DEF IInv, Voted
<1>6. PathTaken'
  BY <1>1, <1>2, DecisionFixed DEF IInv, PathTaken
<1> QED
  BY <1>3, <1>4, <1>5, <1>6 DEF IInv

LEMMA ForwardKeeps ==
    ASSUME IInv, NEW p \in Ranks, Forward(p)
    PROVE  IInv'
<1>1. UNCHANGED << env, calls, plan, call >>
  BY DEF Forward
<1>2. /\ \A r \in Ranks \ {p} : pc'[r] = pc[r]
      /\ pc'[p] = IF TakesFused(p) THEN "kernel" ELSE "reduce"
  BY DEF Forward, IInv, TypeOK
<1>3. TypeOK'
  BY DEF Forward, IInv, TypeOK, Places
<1>4. OneTable' /\ OnePlan'
  BY <1>1 DEF IInv, OneTable, OnePlan
<1>5. Voted'
  BY <1>1, <1>2, CapableFixed DEF IInv, Voted
<1>6. PathTaken'
  BY <1>1, <1>2, DecisionFixed DEF IInv, PathTaken
<1> QED
  BY <1>3, <1>4, <1>5, <1>6 DEF IInv

LEMMA VoteKeeps ==
    ASSUME IInv, Vote
    PROVE  IInv'
<1>1. UNCHANGED << env, calls, call >>
  BY DEF Vote
<1>2. \A r \in Ranks : ~ plan'[r].usable
  BY DEF Vote
<1>3. \A q, r \in Ranks : pc'[r] = "rendezvous" => Capable(q)
  BY DEF Vote, MinOf, RunOK
<1>4. TypeOK'
  <2>1. \A r \in Ranks : MinOf(RunOK, r) \in BOOLEAN /\ MinOf(FoldOK, r) \in BOOLEAN
    BY DEF MinOf
  <2>2. plan' \in [Ranks -> [usable : BOOLEAN, fold : BOOLEAN]]
    BY <2>1 DEF Vote
  <2> QED
    BY <2>2 DEF Vote, IInv, TypeOK, Places
<1>5. OneTable'
  BY <1>1 DEF IInv, OneTable
<1>6. OnePlan'
  BY DEF Vote, OnePlan, MinOf
<1>7. Voted'
  BY <1>1, <1>2, <1>3, CapableFixed DEF Voted
<1>8. PathTaken'
  BY DEF Vote, PathTaken
<1> QED
  BY <1>4, <1>5, <1>6, <1>7, <1>8 DEF IInv

LEMMA RendezvousKeeps ==
    ASSUME IInv, Rendezvous
    PROVE  IInv'
<1>1. UNCHANGED << env, calls, call >>
  BY DEF Rendezvous
<1>2. PICK ok \in BOOLEAN : plan' = [r \in Ranks |-> [plan[r] EXCEPT !.usable = ok]]
  BY DEF Rendezvous
<1>3. \A q \in Ranks : Ranks # {} => Capable(q)
  BY DEF Rendezvous, IInv, Voted
<1>4. TypeOK'
  BY <1>1, <1>2 DEF Rendezvous, IInv, TypeOK, Places
<1>5. OneTable'
  BY <1>1 DEF IInv, OneTable
<1>6. OnePlan'
  BY <1>2 DEF IInv, OnePlan
<1>7. Voted'
  BY <1>1, <1>3, CapableFixed DEF Voted
<1>8. PathTaken'
  BY DEF Rendezvous, PathTaken
<1> QED
  BY <1>4, <1>5, <1>6, <1>7, <1>8 DEF IInv

LEMMA ReturnKeeps ==
    ASSUME IInv, Return
    PROVE  IInv'
<1>1. UNCHANGED << env, calls, plan >> /\ pc' = [r \in Ranks |-> "serve"]
  BY DEF Return
<1>2. TypeOK'
  BY DEF Return, IInv, TypeOK, Places
<1>3. OneTable' /\ OnePlan'
  BY <1>1 DEF IInv, OneTable, OnePlan
<1>4. Voted'
  BY <1>1, CapableFixed DEF IInv, Voted
<1>5. PathTaken'
  BY <1>1 DEF PathTaken
<1> QED
  BY <1>2, <1>3, <1>4, <1>5 DEF IInv

LEMMA StutterKeeps ==
    ASSUME IInv, UNCHANGED vars
    PROVE  IInv'
<1>1. UNCHANGED << env, calls, pc, plan, call >>
  BY DEF vars
<1>2. TypeOK' /\ OneTable' /\ OnePlan'
  BY <1>1 DEF IInv, TypeOK, OneTable, OnePlan
<1>3. Voted' /\ PathTaken'
  BY <1>1, CapableFixed, DecisionFixed DEF IInv, Voted, PathTaken
<1> QED
  BY <1>2, <1>3 DEF IInv

LEMMA EveryStep ==
    ASSUME IInv, [Next]_vars
    PROVE  IInv'
<1>1. CASE \E r \in Ranks : Load(r)
  BY <1>1, LoadKeeps
<1>2. CASE \E r \in Ranks : Forward(r)
  BY <1>2, ForwardKeeps
<1>3. CASE Vote
  BY <1>3, VoteKeeps
<1>4. CASE Rendezvous
  BY <1>4, RendezvousKeeps
<1>5. CASE Return
  BY <1>5, ReturnKeeps
<1>6. CASE UNCHANGED vars
  BY <1>6, StutterKeeps
<1> QED
  BY <1>1, <1>2, <1>3, <1>4, <1>5, <1>6 DEF Next

-----------------------------------------------------------------------------
(* The theorem.                                                              *)

\* As long as the ranks read one chunk table, in the same forward all of them
\* take the same path, and a rank in the fused kernel has peers that can run it
\* and that fold what it folds ("returning None is a rank-uniform outcome"),
\* however gates, flags, binaries, block counts and failures to load differ.
THEOREM PathsUniform ==
    ASSUME "table" \notin Local
    PROVE  Spec => []PathsAgree
<1>1. Init => IInv
  BY Initially
<1>2. IInv /\ [Next]_vars => IInv'
  BY EveryStep
<1>3. IInv => PathsAgree
  BY InvariantSuffices
<1> QED
  BY <1>1, <1>2, <1>3, PTL DEF Spec

-----------------------------------------------------------------------------
(* What a restart keeps.                                                     *)

\* Environments, and what the definitions of CompileCache say of one of them.
Environs == [Names -> UNION {Values(n) : n \in Names}]

GetterIn(e, name) ==
    IF name = "use" /\ e[name] = Unset THEN "1"
    ELSE IF name = "fuse" /\ e[name] = Unset THEN "0"
    ELSE e[name]
KeyIn(e) == {<< n, GetterIn(e, n) >> : n \in {m \in Listed \ Ignored : GetterIn(e, m) # Bad}}
ReducedIn(e, fs) ==
    /\ GetterIn(e, "use") = "1" /\ fs[e["so"]].fits
    /\ GetterIn(e, "fuse") = "1" /\ fs[e["so"]].fused /\ e["ncomm"] # "above"
AnswersIn(e, fs) ==
    [reduced |-> ReducedIn(e, fs),
     folds |-> ReducedIn(e, fs) /\ e["fold"] # "0" /\ fs[e["so"]].residual]
Quiet(e) == \A n \in Unlisted : e[n] = Unset

\* Every graph in the cache holds the answers that some environment, with nothing set
\* that the table does not list, gives under the graph's key with the files as they are.
CacheFaithful ==
    \A g \in cache : \E e \in Environs :
        Quiet(e) /\ g.key = KeyIn(e) /\ g.answers = AnswersIn(e, files)

\* A running process has the answers of its graph, and folds only into what it reduces.
GraphFits ==
    process = "up" =>
        /\ traced = live
        /\ live.reduced \in BOOLEAN /\ live.folds \in BOOLEAN
        /\ live.folds => live.reduced

CacheIInv == environ \in Environs /\ CacheFaithful /\ GraphFits /\ RestartKeepsOutput

LEMMA NowIn ==
  /\ Key = KeyIn(environ)
  /\ LiveAnswers = AnswersIn(environ, files)
<1>1. \A n : Getter(n) = GetterIn(environ, n)
  BY DEF Getter, GetterIn
<1>2. Key = KeyIn(environ)
  BY <1>1 DEF Key, Factors, KeyIn
<1>3. (GateOpen /\ Usable) = ReducedIn(environ, files)
  BY <1>1 DEF GateOpen, Usable, TheBuild, ReducedIn
<1>4. (GateOpen /\ Usable /\ FoldShared)
        = (ReducedIn(environ, files) /\ environ["fold"] # "0" /\ files[environ["so"]].residual)
  BY <1>3 DEF FoldShared, TheBuild
<1> QED BY <1>2, <1>3, <1>4 DEF LiveAnswers, AnswersIn

\* The key tells the getters apart, and with them the answers.
LEMMA KeyDecides ==
  ASSUME NEW d \in Environs, NEW e \in Environs, KeyIn(d) = KeyIn(e), Quiet(d), Quiet(e), NEW fs
  PROVE  AnswersIn(d, fs) = AnswersIn(e, fs)
<1>1. ASSUME NEW n \in Listed \ Ignored
      PROVE  GetterIn(d, n) = GetterIn(e, n)
  <2> DEFINE pd == << n, GetterIn(d, n) >>
             pe == << n, GetterIn(e, n) >>
  <2>1. GetterIn(d, n) # Bad => pd \in KeyIn(d)
    BY DEF KeyIn
  <2>2. GetterIn(e, n) # Bad => pe \in KeyIn(e)
    BY DEF KeyIn
  <2>3. \A m, v : << m, v >> \in KeyIn(d) => v = GetterIn(d, m)
    BY DEF KeyIn
  <2>4. \A m, v : << m, v >> \in KeyIn(e) => v = GetterIn(e, m)
    BY DEF KeyIn
  <2> QED BY <2>1, <2>2, <2>3, <2>4
<1>2. /\ GetterIn(d, "use") = GetterIn(e, "use") /\ GetterIn(d, "fuse") = GetterIn(e, "fuse")
      /\ d["so"] = e["so"]
  <2>1. GetterIn(d, "so") = d["so"] /\ GetterIn(e, "so") = e["so"]
    BY DEF GetterIn
  <2> QED BY <1>1, <2>1 DEF Listed, Ignored
<1>3. d["ncomm"] = e["ncomm"] /\ d["fold"] = e["fold"]
  BY DEF Quiet, Unlisted
<1> QED BY <1>2, <1>3 DEF AnswersIn, ReducedIn

\* The two terms of a layer's output, each once.
Terms(place) ==
    {[half |-> "routed", by |-> "op", sums |-> 1, scale |-> 1],
     [half |-> "shared", by |-> place, sums |-> 1, scale |-> 0]}

LEMMA TermsRight ==
  ASSUME NEW place, output' = Terms(place)
  PROVE  RestartKeepsOutput'
<1> DEFINE r == [half |-> "routed", by |-> "op", sums |-> 1, scale |-> 1]
           s == [half |-> "shared", by |-> place, sums |-> 1, scale |-> 0]
<1>1. output' = {r, s} /\ r.half = "routed" /\ s.half = "shared" /\ r.sums = 1 /\ s.sums = 1
      /\ r.scale = 1
  BY DEF Terms
<1> HIDE DEF r, s
<1>2. Halved("routed")' = {r} /\ Halved("shared")' = {s}
  BY <1>1 DEF Halved
<1>3. Cardinality({r}) = 1 /\ Cardinality({s}) = 1
  BY FS_Singleton
<1> QED BY <1>1, <1>2, <1>3 DEF RestartKeepsOutput

\* When graph and op answer alike, the work of scaling, adding and summing is divided.
LEMMA LayerSums ==
  ASSUME traced = live, live.reduced \in BOOLEAN, live.folds \in BOOLEAN,
         live.folds => live.reduced, NEW fused \in BOOLEAN, fused => live.reduced
  PROVE  \E place : Result(RoutedSlot(fused)) = Terms(place)
<1> DEFINE raw(half, place, n, k) == [half |-> half, by |-> place, sums |-> n, scale |-> k]
<1>1. /\ \A half, place : Term(half, place) = raw(half, place, 0, 0)
      /\ \A half, place, k : [raw(half, place, 0, k) EXCEPT !.sums = @ + 1] = raw(half, place, 1, k)
      /\ \A half, place, n :
            [raw(half, place, n, 0) EXCEPT !.scale = @ + 1] = raw(half, place, n, 1)
      /\ \A half, place, n, k : raw(half, place, n, k).half = half
  BY DEF Term
<1> HIDE DEF raw
<1>2. ASSUME NEW t PROVE Summed({t}) = {[t EXCEPT !.sums = @ + 1]}
  BY DEF Summed
<1>3. ASSUME NEW t, NEW u
      PROVE  Summed({t, u}) = {[t EXCEPT !.sums = @ + 1], [u EXCEPT !.sums = @ + 1]}
  BY DEF Summed
<1>4. ASSUME NEW place
      PROVE  /\ Halves(TRUE, place) = {raw("routed", "op", 0, 1), raw("shared", place, 0, 0)}
             /\ Halves(FALSE, place) = {raw("routed", "op", 0, 0)}
  BY <1>1 DEF Halves, Scale
<1>5. ASSUME NEW n PROVE Scale({raw("routed", "op", n, 0)}) = {raw("routed", "op", n, 1)}
  BY <1>1 DEF Scale
<1>6. \A place : Terms(place) = {raw("routed", "op", 1, 1), raw("shared", place, 1, 0)}
  BY DEF Terms, raw
<1>7. ASSUME NEW place
       PROVE  /\ Summed(Halves(TRUE, place))
                 = {raw("routed", "op", 1, 1), raw("shared", place, 1, 0)}
              /\ Summed(Halves(FALSE, place)) = {raw("routed", "op", 1, 0)}
  <2>1. Summed(Halves(TRUE, place)) = {[raw("routed", "op", 0, 1) EXCEPT !.sums = @ + 1],
                                    [raw("shared", place, 0, 0) EXCEPT !.sums = @ + 1]}
    BY <1>3, <1>4
  <2>2. Summed(Halves(FALSE, place)) = {[raw("routed", "op", 0, 0) EXCEPT !.sums = @ + 1]}
    BY <1>2, <1>4
  <2>3. /\ [raw("routed", "op", 0, 1) EXCEPT !.sums = @ + 1] = raw("routed", "op", 1, 1)
        /\ [raw("routed", "op", 0, 0) EXCEPT !.sums = @ + 1] = raw("routed", "op", 1, 0)
        /\ [raw("shared", place, 0, 0) EXCEPT !.sums = @ + 1] = raw("shared", place, 1, 0)
    BY <1>1
  <2> QED BY <2>1, <2>2, <2>3
<1>8. CASE live.folds
  <2> DEFINE place == IF fused THEN "epilogue" ELSE "op"
  <2>1. RoutedSlot(fused) = Summed(Halves(TRUE, place))
    BY <1>8 DEF RoutedSlot
  <2>2. RoutedSlot(fused) = {raw("routed", "op", 1, 1), raw("shared", place, 1, 0)}
    BY <1>7, <2>1
  <2>3. Result(RoutedSlot(fused)) = RoutedSlot(fused)
    BY <1>8 DEF Result, Added, ScaledSlot, SharedSlot
  <2> QED BY <1>6, <2>2, <2>3
<1>9. CASE ~ live.folds /\ live.reduced
  <2>1. RoutedSlot(fused) = {raw("routed", "op", 1, 0)}
    <3>1. \/ RoutedSlot(fused) = Summed(Halves(FALSE, "op"))
          \/ RoutedSlot(fused) = Summed(Halves(FALSE, "epilogue"))
      BY <1>9 DEF RoutedSlot
    <3> QED BY <1>7, <3>1
  <2>2. Result(RoutedSlot(fused)) = Scale(RoutedSlot(fused)) \cup Summed({Term("shared", "graph")})
    BY <1>9 DEF Result, Added, ScaledSlot, SharedSlot
  <2>3. Summed({Term("shared", "graph")}) = {raw("shared", "graph", 1, 0)}
    BY <1>1, <1>2
  <2>4. Result(RoutedSlot(fused)) = {raw("routed", "op", 1, 1), raw("shared", "graph", 1, 0)}
    BY <1>5, <2>1, <2>2, <2>3
  <2> QED BY <1>6, <2>4
<1>10. CASE ~ live.reduced
  <2>1. RoutedSlot(fused) = {raw("routed", "op", 0, 0)}
    BY <1>4, <1>10 DEF RoutedSlot
  <2>2. Result(RoutedSlot(fused)) = Summed(Scale(RoutedSlot(fused)) \cup {Term("shared", "graph")})
    BY <1>10 DEF Result, Added, ScaledSlot, SharedSlot
  <2>3. Scale(RoutedSlot(fused)) \cup {Term("shared", "graph")}
          = {raw("routed", "op", 0, 1), raw("shared", "graph", 0, 0)}
    BY <1>1, <1>5, <2>1
  <2>4. Result(RoutedSlot(fused)) = {raw("routed", "op", 1, 1), raw("shared", "graph", 1, 0)}
    BY <1>1, <1>3, <2>2, <2>3
  <2> QED BY <1>6, <2>4
<1> QED BY <1>8, <1>9, <1>10

LEMMA CacheStart == CacheInit => CacheIInv
<1> SUFFICES ASSUME CacheInit PROVE CacheIInv
  OBVIOUS
<1>1. environ \in Environs
  <2>1. \A n \in Names : environ[n] \in Values(n)
    <3>1. (CHOOSE p \in Paths : TRUE) \in Paths
      BY CacheAssumption
    <3> QED BY <3>1 DEF CacheInit, Names, Listed, Unlisted, Values, Unset
  <2> QED BY <2>1 DEF CacheInit, Environs
<1> QED BY <1>1 DEF CacheInit, CacheIInv, CacheFaithful, GraphFits, RestartKeepsOutput

LEMMA CacheStep ==
  ASSUME Strict, ~ Rebuilds, CacheIInv, [CacheNext]_cacheVars
  PROVE  CacheIInv'
<1>1. environ \in Environs /\ CacheFaithful /\ GraphFits /\ RestartKeepsOutput
  BY DEF CacheIInv
<1>2. CASE SetVariable
  <2>1. environ' \in Environs
    <3>1. PICK n \in Names : \E v \in Values(n) : environ' = [environ EXCEPT ![n] = v]
      BY <1>2 DEF SetVariable
    <3>2. PICK v \in Values(n) : environ' = [environ EXCEPT ![n] = v]
      BY <3>1
    <3>3. v \in UNION {Values(m) : m \in Names}
      OBVIOUS
    <3> QED BY <1>1, <3>2, <3>3 DEF Environs
  <2>2. UNCHANGED << files, cache, process, live, traced, output >>
    BY <1>2 DEF SetVariable
  <2> QED BY <1>1, <2>1, <2>2 DEF CacheIInv, CacheFaithful, GraphFits, RestartKeepsOutput, Halved
<1>3. CASE Start
  <2>1. environ' = environ /\ files' = files /\ output' = {}
    BY <1>3 DEF Start
  <2>2. RestartKeepsOutput'
    BY <2>1 DEF RestartKeepsOutput
  <2>3. CASE Refuses \/ LoadRaises
    <3>1. process' = "raised" /\ cache' = cache
      BY <1>3, <2>3 DEF Start
    <3> QED BY <1>1, <2>1, <2>2, <3>1 DEF CacheIInv, CacheFaithful, GraphFits
  <2>4. CASE ~ (Refuses \/ LoadRaises)
    <3>1. Quiet(environ)
      BY <2>4 DEF Refuses, Quiet
    <3>2. /\ live' = LiveAnswers
          /\ IF \E g \in cache : g.key = Key
             THEN /\ traced' = (CHOOSE g \in cache : g.key = Key).answers
                  /\ cache' = cache
             ELSE /\ traced' = LiveAnswers
                  /\ cache' = cache \cup {[key |-> Key, answers |-> LiveAnswers]}
      BY <1>3, <2>4 DEF Start
    <3>3. traced' = LiveAnswers
      <4>1. CASE \E g \in cache : g.key = Key
        <5>1. PICK g \in cache : g.key = Key /\ traced' = g.answers
          BY <3>2, <4>1
        <5>2. PICK e \in Environs : Quiet(e) /\ g.key = KeyIn(e) /\ g.answers = AnswersIn(e, files)
          BY <1>1 DEF CacheFaithful
        <5> QED BY <1>1, <3>1, <5>1, <5>2, NowIn, KeyDecides
      <4> QED BY <3>2, <4>1
    <3>4. CacheFaithful'
      <4>1. ASSUME NEW g \in cache'
            PROVE  \E e \in Environs :
                     Quiet(e) /\ g.key = KeyIn(e) /\ g.answers = AnswersIn(e, files)
        <5>1. CASE g \in cache
          BY <1>1, <5>1 DEF CacheFaithful
        <5>2. CASE g \notin cache
          <6>1. g = [key |-> Key, answers |-> LiveAnswers]
            BY <3>2, <4>1, <5>2
          <6> QED BY <1>1, <3>1, <6>1, NowIn
        <5> QED BY <5>1, <5>2
      <4> QED BY <2>1, <4>1 DEF CacheFaithful
    <3>5. GraphFits'
      <4>1. /\ LiveAnswers.reduced = (GateOpen /\ Usable)
            /\ LiveAnswers.folds = (GateOpen /\ Usable /\ FoldShared)
        BY DEF LiveAnswers
      <4> QED BY <3>2, <3>3, <4>1 DEF GraphFits
    <3> QED BY <1>1, <2>1, <2>2, <3>4, <3>5 DEF CacheIInv
  <2> QED BY <2>3, <2>4
<1>4. CASE Stop
  BY <1>1, <1>4 DEF Stop, CacheIInv, CacheFaithful, GraphFits, RestartKeepsOutput
<1>5. CASE RunLayer
  <2>1. PICK fused \in BOOLEAN : (fused => live.reduced) /\ output' = Result(RoutedSlot(fused))
    BY <1>5 DEF RunLayer
  <2>2. process = "up" /\ UNCHANGED << environ, files, cache, process, live, traced >>
    BY <1>5 DEF RunLayer
  <2>3. PICK place : Result(RoutedSlot(fused)) = Terms(place)
    BY <1>1, <2>1, <2>2, LayerSums DEF GraphFits
  <2>4. RestartKeepsOutput'
    BY <2>1, <2>3, TermsRight
  <2> QED BY <1>1, <2>2, <2>4 DEF CacheIInv, CacheFaithful, GraphFits
<1>6. CASE UNCHANGED cacheVars
  BY <1>1, <1>6 DEF cacheVars, CacheIInv, CacheFaithful, GraphFits, RestartKeepsOutput, Halved
<1> QED BY <1>2, <1>3, <1>4, <1>5, <1>6 DEF CacheNext, Replace

\* A service that refuses variables it does not know, and whose library files stay as they
\* are, never pairs a cached graph with a plan that divides the work otherwise: every
\* layer's output holds each half once, scaled and summed as it must be, for any paths and
\* builds and after any number of restarts.
THEOREM RestartsKeepOutput == Strict /\ ~ Rebuilds => (CacheSpec => []RestartKeepsOutput)
<1> SUFFICES ASSUME Strict, ~ Rebuilds PROVE CacheSpec => []RestartKeepsOutput
  OBVIOUS
<1>1. CacheIInv /\ [CacheNext]_cacheVars => CacheIInv'
  BY CacheStep
<1>2. CacheIInv => RestartKeepsOutput
  BY DEF CacheIInv
<1> QED BY <1>1, <1>2, CacheStart, PTL DEF CacheSpec

-----------------------------------------------------------------------------
(* NIXL.                                                                     *)

NixlSpec == NixlInit /\ [][NixlNext]_nixlVars

NixlTypes ==
    /\ world \in 1..MaxRanks /\ manager \in Nat
    /\ connected \in 0..MaxRanks /\ active \in 0..MaxRanks
    /\ made \in BOOLEAN /\ forgot \in BOOLEAN
    /\ masked \subseteq Int /\ failed \subseteq Int

\* Before the buffer is made there is nothing to mask.
NothingYet == ~ made => connected = 0 /\ active = 0 /\ masked = {} /\ failed = {}

\* Nobody takes part who is not connected.  A manager that is larger than what is
\* connected meets no growth that is still staged: it would unmask, with its own
\* ranks, only those it connects.
NoForeignStage == active <= connected /\ (made => connected = active \/ world <= connected)

\* Among the ranks that take part the mask is exactly the history of failures.
MaskIsHistory == masked \cap Below(active) = failed

StagedMasked == ~ forgot => Between(active, connected) \subseteq masked
CommittedWorld == did = "commit" => connected = world /\ active = world
AnswerFits == answer # "none" => (answer = "fault" <=> failed # {})

NixlIInv ==
    /\ NixlTypes /\ NothingYet /\ NoForeignStage
    /\ MaskIsHistory /\ StagedMasked /\ CommittedWorld /\ AnswerFits

\* The parts at the start.
LEMMA NixlStart == NixlInit => NixlIInv
<1> SUFFICES ASSUME NixlInit PROVE NixlIInv
  OBVIOUS
<1>1. NixlTypes /\ NothingYet /\ NoForeignStage
  <2>1. connected \in 0..MaxRanks /\ active \in 0..MaxRanks /\ manager \in Nat
    BY NixlAssumption, SMT DEF NixlInit
  <2>2. active <= connected
    BY SMT DEF NixlInit
  <2> QED BY <2>1, <2>2 DEF NixlInit, NixlTypes, NothingYet, NoForeignStage
<1>2. Between(active, connected) = {}
  BY NixlAssumption, SMT DEF NixlInit, Between, NixlRanks
<1>3. MaskIsHistory /\ StagedMasked /\ CommittedWorld /\ AnswerFits
  BY <1>2 DEF NixlInit, MaskIsHistory, StagedMasked, CommittedWorld, AnswerFits
<1> QED BY <1>1, <1>3 DEF NixlIInv

\* A commit makes the group's ranks, and no others, the active ones, and forgets the
\* failures of those who left and of those who join.
LEMMA CommitKeeps ==
  ASSUME NixlIInv, Commit
  PROVE  NixlIInv'
<1> USE DEF NixlIInv, NixlTypes, NothingYet, NoForeignStage
<1>1. connected' = world /\ active' = world /\ world' = world /\ made /\ made' = made
  BY SMT DEF Commit, Shrunk
<1>2. masked' \subseteq masked /\ failed' \subseteq failed
  BY SMT DEF Commit
<1>3. NixlTypes' /\ NothingYet' /\ NoForeignStage'
  <2>1. world \in 0..MaxRanks /\ world <= world
    BY NixlAssumption, SMT
  <2>2. manager' = manager /\ forgot' = forgot
    BY DEF Commit
  <2> QED BY <1>1, <1>2, <2>1, <2>2
<1>4. MaskIsHistory'
  <2>1. CASE world < connected
    <3>1. masked' = masked \ Between(Shrunk, world)
      BY <2>1 DEF Commit, Unmasked
    <3>2. Shrunk = IF active < world THEN active ELSE world
      BY DEF Shrunk
    <3> QED BY <1>1, <3>1, <3>2, <2>1, NixlAssumption, SMT
            DEF Commit, MaskIsHistory, Below, Between, NixlRanks
  <2>2. CASE world > connected
    <3>1. connected = active
      BY <2>2, <1>1, SMT
    <3>2. masked' = masked \ Between(active, world)
      BY <2>2, <3>1, SMT DEF Commit
    <3> QED BY <1>1, <3>2, <3>1, <2>2, NixlAssumption, SMT
            DEF Commit, MaskIsHistory, Below, Between, NixlRanks
  <2>3. CASE world = connected
    <3>1. masked' = masked \ Between(active, world)
      BY <2>3, SMT DEF Commit, Unmasked
    <3> QED BY <1>1, <3>1, <2>3, NixlAssumption, SMT
            DEF Commit, MaskIsHistory, Below, Between, NixlRanks
  <2> QED BY <2>1, <2>2, <2>3, SMT
<1>5. StagedMasked' /\ CommittedWorld' /\ AnswerFits'
  BY <1>1, SMT DEF Commit, Said, StagedMasked, CommittedWorld, AnswerFits, Between, NixlRanks
<1> QED BY <1>3, <1>4, <1>5

\* The other operations.
LEMMA NixlStep ==
  ASSUME ~ Regrows, NixlIInv, [NixlNext]_nixlVars
  PROVE  NixlIInv'
<1> USE DEF NixlIInv, NixlTypes, NothingYet, NoForeignStage, CommittedWorld, AnswerFits,
            MaskIsHistory, StagedMasked, Said
<1>1. CASE InitBuffer
  BY <1>1, NixlAssumption, SMT DEF InitBuffer, Below, Between, NixlRanks
<1>2. CASE Stage
  <2>1. Staged \in connected..MaxRanks /\ world <= Staged
    BY SMT DEF Staged
  <2>2. Between(connected, Staged) \subseteq Int
        /\ Between(connected, Staged) \cap Below(active) = {}
        /\ Between(active, Staged) \subseteq
               Between(active, connected) \cup Between(connected, Staged)
    BY <2>1, SMT DEF Between, Below, NixlRanks
  <2>3. masked' = masked \cup Between(connected, Staged) /\ connected' = Staged
        /\ active' = active /\ failed' = failed /\ forgot' = forgot /\ world' = world
        /\ made' = made /\ manager' = manager /\ made
        /\ did' = "stage" /\ answer' = "none"
    BY <1>2 DEF Stage
  <2>4. MaskIsHistory' /\ StagedMasked'
    BY <2>2, <2>3, <2>1
  <2>5. NixlTypes' /\ NothingYet' /\ NoForeignStage'
    <3>1. Staged \in 0..MaxRanks /\ active <= Staged
      BY <2>1, NixlAssumption, SMT
    <3>2. masked \cup Between(connected, Staged) \subseteq Int
      BY <2>2
    <3> QED BY <2>1, <2>3, <3>1, <3>2
  <2> QED BY <2>3, <2>4, <2>5
<1>3. CASE Commit
  BY <1>3, CommitKeeps
<1>4. CASE Query
  BY <1>4 DEF Query, Seen
<1>5. CASE Clean
  <2>1. ~ forgot' => Between(active, connected) = {}
    <3>1. ~ (active < connected) => Between(active, connected) = {}
      BY SMT DEF Between, NixlRanks
    <3>2. forgot' = (forgot \/ active < connected)
      BY <1>5 DEF Clean
    <3> QED BY <3>1, <3>2
  <2>2. masked' = {} /\ failed' = {} /\ connected' = connected /\ active' = active
        /\ world' = world /\ made' = made /\ manager' = manager /\ made
        /\ did' = "clean" /\ answer' = "none"
    BY <1>5 DEF Clean
  <2>3. forgot' \in BOOLEAN
    BY <1>5 DEF Clean
  <2> QED BY <2>1, <2>2, <2>3
<1>6. ASSUME NEW w \in 1..MaxRanks, NewManager(w)
      PROVE  NixlIInv'
  BY <1>6, SMT DEF NewManager
<1>7. ASSUME NEW r \in NixlRanks, Fail(r)
      PROVE  NixlIInv'
  BY <1>7, SMT DEF Fail, Below, NixlRanks
<1>8. CASE UNCHANGED nixlVars
  BY <1>8 DEF nixlVars
<1> QED BY <1>1, <1>2, <1>3, <1>4, <1>5, <1>6, <1>7, <1>8 DEF NixlNext

\* When no staged growth gives way to a larger one, query_fault reports exactly the
\* ranks that the kernel gave up on, staged ranks take no part, and a commit leaves
\* exactly the group's ranks connected and all but the failed active, for any number
\* of ranks and any history of managers, stages, commits, faults and clean-ups.
THEOREM FaultsReported == ~ Regrows => (NixlSpec => []FaultsExact)
<1> SUFFICES ASSUME ~ Regrows PROVE NixlSpec => []FaultsExact
  OBVIOUS
<1>1. NixlIInv /\ [NixlNext]_nixlVars => NixlIInv'
  BY NixlStep
<1>2. NixlIInv => FaultsExact
  <2> SUFFICES ASSUME NixlIInv PROVE FaultsExact
    OBVIOUS
  <2>1. failed \cap Below(active) = failed
    BY DEF NixlIInv, MaskIsHistory
  <2> QED BY <2>1 DEF NixlIInv, MaskIsHistory, StagedMasked, CommittedWorld, AnswerFits, FaultsExact
<1> QED BY <1>1, <1>2, NixlStart, PTL DEF NixlSpec

-----------------------------------------------------------------------------
(* The one-sided FlashInfer workspace.                                       *)

WorkspaceSpec == WorkspaceInit /\ [][WorkspaceNext]_workspaceVars

Asked == [size : Nat, tokens : Nat, topk : Nat, experts : Nat]
NoBounds == [size |-> 0, tokens |-> 0, topk |-> 0, experts |-> 0]

\* A layer, or the layers up to one, within bounds; bounds grown by a layer.
Within(a, b) ==
    a.size <= b.size /\ a.tokens <= b.tokens /\ a.topk = b.topk /\ a.experts = b.experts
Covers(b, layers, n) == \A l \in 1..n : Within(layers[l], b)
GrownFrom(b, a) == [a EXCEPT !.size = MaxOf(b.size, @), !.tokens = MaxOf(b.tokens, @)]

LEMMA GrowthCovers ==
  ASSUME NEW a \in Asked, NEW b \in Asked
  PROVE  /\ GrownFrom(b, a) \in Asked
         /\ Within(a, GrownFrom(b, a))
         /\ a.topk = b.topk /\ a.experts = b.experts =>
                \A c \in Asked : Within(c, b) => Within(c, GrownFrom(b, a))
<1> DEFINE g == GrownFrom(b, a)
<1>1. /\ g.size = MaxOf(b.size, a.size) /\ g.tokens = MaxOf(b.tokens, a.tokens)
      /\ g.topk = a.topk /\ g.experts = a.experts
      /\ g = [size |-> MaxOf(b.size, a.size), tokens |-> MaxOf(b.tokens, a.tokens),
              topk |-> a.topk, experts |-> a.experts]
  <2> DEFINE s == MaxOf(b.size, a.size)
             t == MaxOf(b.tokens, a.tokens)
  <2>1. g = [a EXCEPT !.size = s, !.tokens = t]
    BY DEF GrownFrom
  <2> HIDE DEF g, s, t
  <2>2. g = [size |-> s, tokens |-> t, topk |-> a.topk, experts |-> a.experts]
    BY <2>1 DEF Asked
  <2> QED BY <2>2 DEF s, t
<1>2. /\ MaxOf(b.size, a.size) \in Nat /\ MaxOf(b.tokens, a.tokens) \in Nat
      /\ a.size <= MaxOf(b.size, a.size) /\ b.size <= MaxOf(b.size, a.size)
      /\ a.tokens <= MaxOf(b.tokens, a.tokens) /\ b.tokens <= MaxOf(b.tokens, a.tokens)
  BY SMT DEF Asked, MaxOf
<1>3. g \in Asked
  BY <1>1, <1>2 DEF Asked
<1> HIDE DEF g
<1>4. Within(a, g)
  BY <1>1, <1>2 DEF Within
<1>5. ASSUME a.topk = b.topk, a.experts = b.experts, NEW c \in Asked, Within(c, b)
      PROVE  Within(c, g)
  BY <1>1, <1>2, <1>5, SMT DEF Within, Asked
<1> QED BY <1>3, <1>4, <1>5 DEF g

WorkspaceTypes ==
    /\ model \in [Stages -> Seq(Asked)]
    /\ ready \in [Processes -> Nat]
    /\ step \in [Processes -> {"layer", "build", "barrier", "raised"}]
    /\ bounds \in [Processes -> Asked]
    /\ initialized \in [Processes -> BOOLEAN]
    /\ DOMAIN alltoall = Processes

\* What holds of a process, by where it is: between layers it has a workspace of its
\* bounds, which cover its layers, unless it has none yet; while it builds, the bounds
\* cover the next layer as well; at the barrier it has that workspace.
AloneRight(p, layers) ==
    /\ ready[p] <= Len(layers)
    /\ step[p] \in {"build", "barrier"} =>
        ready[p] < Len(layers) /\ Covers(bounds[p], layers, ready[p] + 1)
    /\ step[p] = "layer" =>
        /\ initialized[p] <=> ready[p] > 0
        /\ Covers(bounds[p], layers, ready[p])
        /\ initialized[p] => alltoall[p] = bounds[p]
    /\ step[p] = "barrier" => initialized[p] /\ alltoall[p] = bounds[p]

\* Two ranks of a group that are between layers have the same workspace, and two that
\* build are at the same layer.
SettledAlike(p, q) ==
    step[p] = "layer" /\ step[q] = "layer" =>
        initialized[p] = initialized[q] /\ bounds[p] = bounds[q]
BuildingAlike(p, q) ==
    step[p] = "build" /\ step[q] = "build" => ready[p] = ready[q] /\ bounds[p] = bounds[q]
AtBarrierAlike(p, q) ==
    step[p] = "barrier" => step[q] = "barrier" /\ ready[p] = ready[q] /\ bounds[p] = bounds[q]

\* One that is still between layers while another builds will come to build the same:
\* the layers up to the other's fit what it has, and that one does not.
ComesToBuild(p, q, layers) ==
    step[p] = "layer" /\ step[q] = "build" =>
        /\ ready[p] <= ready[q]
        /\ ready[p] < ready[q] => initialized[p]
        /\ \A l \in 1..ready[q] : ready[p] < l => Within(layers[l], bounds[p])
        /\ bounds[q] = GrownFrom(bounds[p], layers[ready[q] + 1])
        /\ initialized[p] => ~ Within(layers[ready[q] + 1], bounds[p])

PairRight(p, q, layers) ==
    SettledAlike(p, q) /\ BuildingAlike(p, q) /\ AtBarrierAlike(p, q) /\ ComesToBuild(p, q, layers)

WorkspaceIInv ==
    /\ WorkspaceTypes
    /\ \A p \in Processes : AloneRight(p, model[p[1]])
    /\ \A p \in Processes : \A q \in Group(p) : PairRight(p, q, model[p[1]])

LEMMA GroupFacts ==
  ASSUME NEW p \in Processes, WorkspaceTypes
  PROVE  /\ Group(p) \subseteq Processes /\ p \in Group(p)
         /\ model[p[1]] \in Seq(Asked)
         /\ \A q \in Group(p) : q[1] = p[1] /\ p \in Group(q) /\ Group(q) = Group(p)
  BY DEF Processes, Group, WorkspaceTypes

LEMMA WorkspaceStart == WorkspaceInit => WorkspaceIInv
<1> SUFFICES ASSUME WorkspaceInit PROVE WorkspaceIInv
  OBVIOUS
<1>1. WorkspaceTypes
  <2>1. NoBounds \in Asked
    BY SMT DEF NoBounds, Asked
  <2> QED BY <2>1, WorkspaceAssumption DEF WorkspaceInit, WorkspaceTypes, NoBounds, Asked
<1>2. ASSUME NEW p \in Processes
      PROVE  AloneRight(p, model[p[1]])
  <2>1. step[p] = "layer" /\ ready[p] = 0 /\ initialized[p] = FALSE
    BY DEF WorkspaceInit
  <2>2. 0 <= Len(model[p[1]]) /\ 1..0 = {} /\ ~ (0 > 0)
    BY <1>1, GroupFacts, SMT
  <2> QED BY <2>1, <2>2 DEF AloneRight, Covers
<1>3. ASSUME NEW p \in Processes, NEW q \in Group(p)
      PROVE  PairRight(p, q, model[p[1]])
  <2>1. q \in Processes
    BY DEF Group
  <2> QED BY <2>1 DEF WorkspaceInit, PairRight, SettledAlike, BuildingAlike, AtBarrierAlike,
                      ComesToBuild
<1> QED BY <1>1, <1>2, <1>3 DEF WorkspaceIInv

\* A layer is made without a collective.
LEMMA InitializeKeeps ==
  ASSUME WorkspaceIInv, NEW x \in Processes, Initialize(x)
  PROVE  WorkspaceIInv'
<1> DEFINE n == ready[x]
           layers == model[x[1]]
           a == layers[n + 1]
           b == bounds[x]
<1>1. /\ WorkspaceTypes /\ layers \in Seq(Asked) /\ AloneRight(x, layers)
      /\ n \in Nat /\ b \in Asked /\ initialized[x] \in BOOLEAN
      /\ step[x] = "layer" /\ model' = model
  BY GroupFacts DEF WorkspaceIInv, WorkspaceTypes, Initialize
<1>2. n < Len(layers) /\ a \in Asked
  <2>1. n < Len(layers)
    BY DEF Initialize, LayersLeft
  <2> HIDE DEF layers, n
  <2> QED BY <1>1, <2>1, SMT
<1>3. /\ Matches(x) <=> a.topk = b.topk /\ a.experts = b.experts
      /\ Fits(x) <=> a.size <= b.size /\ a.tokens <= b.tokens
      /\ Grown(x) = GrownFrom(b, a)
  BY DEF Matches, Fits, Grown, GrownFrom, Layer
<1>4. ASSUME NEW p \in Processes, p \in Group(x) PROVE step[p] # "barrier"
  BY <1>1, <1>4, GroupFacts DEF WorkspaceIInv, PairRight, AtBarrierAlike
<1>5. ASSUME NEW p \in Processes, NEW q \in Group(p)
      PROVE  /\ q \in Processes /\ PairRight(p, q, model[p[1]]) /\ PairRight(q, p, model[p[1]])
             /\ (p = x \/ q = x => p \in Group(x) /\ q \in Group(x) /\ model[p[1]] = layers)
             /\ AloneRight(p, model[p[1]]) /\ AloneRight(q, model[p[1]])
  BY <1>1, GroupFacts DEF WorkspaceIInv
<1> HIDE DEF n, layers, a, b
<1>6. CASE step' = [step EXCEPT ![x] = "raised"]
           /\ UNCHANGED << ready, bounds, initialized, alltoall >>
  <2>1. WorkspaceTypes'
    BY <1>1, <1>6 DEF WorkspaceTypes
  <2>2. \A p \in Processes : step'[p] = IF p = x THEN "raised" ELSE step[p]
    BY <1>1, <1>6 DEF WorkspaceTypes
  <2>3. ASSUME NEW p \in Processes
        PROVE  AloneRight(p, model[p[1]])'
    <3>1. AloneRight(p, model[p[1]])
      BY DEF WorkspaceIInv
    <3> QED BY <1>1, <1>6, <2>2, <3>1 DEF AloneRight
  <2>4. ASSUME NEW p \in Processes, NEW q \in Group(p)'
        PROVE  PairRight(p, q, model[p[1]])'
    <3>1. q \in Group(p)
      BY DEF Group
    <3>2. CASE p = x \/ q = x
      <4>1. step[p] # "barrier" /\ q \in Processes
        BY <1>4, <1>5, <3>1, <3>2
      <4> QED BY <2>2, <3>2, <4>1
              DEF PairRight, SettledAlike, BuildingAlike, AtBarrierAlike, ComesToBuild
    <3>3. CASE p # x /\ q # x
      <4>1. step'[p] = step[p] /\ step'[q] = step[q] /\ PairRight(p, q, model[p[1]])
        BY <1>5, <2>2, <3>1, <3>3
      <4> QED BY <1>1, <1>6, <4>1
              DEF PairRight, SettledAlike, BuildingAlike, AtBarrierAlike, ComesToBuild
    <3> QED BY <3>2, <3>3
  <2> QED BY <2>1, <2>3, <2>4 DEF WorkspaceIInv
<1>7. CASE /\ initialized[x] /\ Matches(x) /\ Fits(x)
           /\ ready' = [ready EXCEPT ![x] = @ + 1]
           /\ UNCHANGED << step, bounds, initialized, alltoall >>
  <2>1. /\ \A p \in Processes : p # x => ready'[p] = ready[p]
        /\ ready'[x] = n + 1 /\ Within(a, b) /\ n + 1 \in Nat
    BY <1>1, <1>3, <1>7, SMT DEF WorkspaceTypes, n, Within
  <2>2. WorkspaceTypes'
    BY <1>1, <1>7, <2>1 DEF WorkspaceTypes, n
  <2>3. n + 1 <= Len(layers) /\ n + 1 > 0 /\ n > 0 /\ Covers(b, layers, n + 1)
    <3>1. Covers(b, layers, n) /\ n > 0
      BY <1>1, <1>7 DEF AloneRight, n, b
    <3>2. \A l \in 1..n + 1 : l \in 1..n \/ l = n + 1
      BY <1>1, SMT
    <3>3. n + 1 <= Len(layers) /\ n + 1 > 0
      BY <1>1, <1>2, SMT
    <3> QED BY <2>1, <3>1, <3>2, <3>3 DEF Covers, a
  <2>4. ASSUME NEW p \in Processes
        PROVE  AloneRight(p, model[p[1]])'
    <3>1. CASE p = x
      BY <1>1, <1>7, <2>1, <2>3, <3>1 DEF AloneRight, b, layers
    <3>2. CASE p # x
      <4>1. AloneRight(p, model[p[1]]) /\ ready'[p] = ready[p]
        BY <2>1, <3>2 DEF WorkspaceIInv
      <4> QED BY <1>1, <1>7, <4>1 DEF AloneRight
    <3> QED BY <3>1, <3>2
  <2>5. ASSUME NEW p \in Processes, NEW q \in Group(p)'
        PROVE  PairRight(p, q, model[p[1]])'
    <3>1. q \in Group(p) /\ q \in Processes
      BY DEF Group
    <3>2. SettledAlike(p, q)'
      BY <1>5, <1>7, <3>1 DEF PairRight, SettledAlike
    <3>3. BuildingAlike(p, q)' /\ AtBarrierAlike(p, q)'
      <4>1. p = x \/ q = x => step[p] # "barrier"
        BY <1>4, <1>5, <3>1
      <4>2. ~ (p = x /\ step[p] = "build") /\ ~ (q = x /\ step[q] = "build")
        BY <1>1
      <4> QED BY <1>5, <1>7, <2>1, <3>1, <4>1, <4>2 DEF PairRight, BuildingAlike, AtBarrierAlike
    <3>4. ComesToBuild(p, q, model[p[1]])'
      <4> SUFFICES ASSUME step[p] = "layer", step[q] = "build"
                   PROVE  ComesToBuild(p, q, model[p[1]])'
        BY <1>7 DEF ComesToBuild
      <4>1. ComesToBuild(p, q, model[p[1]]) /\ q # x
        BY <1>1, <1>5, <3>1 DEF PairRight
      <4>2. CASE p # x
        BY <1>1, <1>7, <2>1, <3>1, <4>1, <4>2 DEF ComesToBuild
      <4>3. CASE p = x
        <5>1. /\ n <= ready[q] /\ ready[q] \in Nat
              /\ \A l \in 1..ready[q] : n < l => Within(layers[l], b)
              /\ bounds[q] = GrownFrom(b, layers[ready[q] + 1])
              /\ ~ Within(layers[ready[q] + 1], b)
          BY <1>1, <1>7, <3>1, <4>1, <4>3 DEF ComesToBuild, WorkspaceTypes, n, b, layers
        <5>2. n # ready[q]
          BY <2>1, <5>1 DEF a
        <5>3. n + 1 <= ready[q] /\ \A l \in 1..ready[q] : n + 1 < l => n < l
          BY <1>1, <5>1, <5>2, SMT
        <5>4. /\ ready'[p] = n + 1 /\ ready'[q] = ready[q] /\ bounds'[p] = b
              /\ bounds'[q] = bounds[q] /\ initialized'[p] = TRUE /\ (model[p[1]])' = layers
          BY <1>1, <1>7, <2>1, <3>1, <4>1, <4>3 DEF WorkspaceTypes, b, layers
        <5> QED BY <5>1, <5>3, <5>4 DEF ComesToBuild
      <4> QED BY <4>2, <4>3
    <3> QED BY <3>2, <3>3, <3>4 DEF PairRight
  <2> QED BY <2>2, <2>4, <2>5 DEF WorkspaceIInv
<1>8. CASE /\ initialized[x] => Matches(x) /\ ~ Fits(x)
           /\ bounds' = [bounds EXCEPT ![x] = Grown(x)]
           /\ initialized' = [initialized EXCEPT ![x] = FALSE]
           /\ alltoall' = [alltoall EXCEPT ![x] = NoneBuilt]
           /\ step' = [step EXCEPT ![x] = "build"]
           /\ UNCHANGED ready
  <2> DEFINE g == GrownFrom(b, a)
  <2>1. /\ g \in Asked /\ Within(a, g)
        /\ initialized[x] => \A c \in Asked : Within(c, b) => Within(c, g)
    BY <1>1, <1>2, <1>3, <1>8, GrowthCovers
  <2> HIDE DEF g
  <2>2. /\ bounds'[x] = g /\ step'[x] = "build"
        /\ \A p \in Processes : p # x =>
            bounds'[p] = bounds[p] /\ step'[p] = step[p] /\ initialized'[p] = initialized[p]
                /\ alltoall'[p] = alltoall[p]
    BY <1>1, <1>3, <1>8 DEF WorkspaceTypes, g
  <2>3. WorkspaceTypes'
    BY <1>1, <1>3, <1>8, <2>1 DEF WorkspaceTypes, g
  <2>4. Covers(g, layers, n + 1)
    <3>1. ASSUME NEW l \in 1..n + 1 PROVE Within(layers[l], g)
      <4>1. CASE l = n + 1
        BY <2>1, <4>1 DEF a
      <4>2. CASE l # n + 1
        <5>1. l \in 1..n /\ n > 0 /\ layers[l] \in Asked
          BY <1>1, <1>2, <4>2, SMT
        <5>2. Covers(b, layers, n) /\ initialized[x]
          BY <1>1, <5>1 DEF AloneRight, n, b
        <5> QED BY <2>1, <5>1, <5>2 DEF Covers
      <4> QED BY <4>1, <4>2
    <3> QED BY <3>1 DEF Covers
  <2>5. ASSUME NEW p \in Processes
        PROVE  AloneRight(p, model[p[1]])'
    <3>1. CASE p = x
      <4>1. n <= Len(layers)
        BY <1>1, <1>2, SMT
      <4> QED BY <1>1, <1>2, <1>8, <2>2, <2>4, <3>1, <4>1 DEF AloneRight, layers, n
    <3>2. CASE p # x
      <4>1. AloneRight(p, model[p[1]])
        BY DEF WorkspaceIInv
      <4> QED BY <1>1, <1>8, <2>2, <3>2, <4>1 DEF AloneRight
    <3> QED BY <3>1, <3>2
  \* Another rank of the group: between layers, it will build the same; building, it
  \* builds the same.
  <2>6. ASSUME NEW q \in Group(x), q # x, step[q] = "layer"
        PROVE  /\ ready[q] <= n /\ (ready[q] < n => initialized[q])
               /\ \A l \in 1..n : ready[q] < l => Within(layers[l], bounds[q])
               /\ g = GrownFrom(bounds[q], a)
               /\ initialized[q] => ~ Within(a, bounds[q])
    <3>1. /\ q \in Processes /\ AloneRight(q, layers) /\ ready[q] \in Nat
          /\ bounds[q] = b /\ initialized[q] = initialized[x]
      BY <1>1, <1>5, <2>6, GroupFacts
         DEF PairRight, SettledAlike, WorkspaceTypes, layers, b
    <3>2. initialized[x] => ~ Within(a, b)
      BY <1>3, <1>8 DEF Within
    <3>3. ready[q] <= n
      <4> SUFFICES ASSUME ~ (ready[q] <= n) PROVE FALSE
        OBVIOUS
      <4>1. n + 1 \in 1..ready[q] /\ ready[q] > 0
        BY <1>1, <3>1, SMT
      <4>2. Within(a, b) /\ initialized[q]
        BY <2>6, <3>1, <4>1 DEF AloneRight, Covers, a
      <4> QED BY <3>1, <3>2, <4>2
    <3>4. n > 0 => initialized[x]
      BY <1>1 DEF AloneRight, n
    <3>5. ready[q] < n => n > 0
      BY <1>1, <3>1, SMT
    <3>6. \A l \in 1..n : Within(layers[l], b)
      BY <1>1 DEF AloneRight, Covers, n, b
    <3> QED BY <3>1, <3>2, <3>3, <3>4, <3>5, <3>6 DEF g
  <2>7. ASSUME NEW q \in Group(x), q # x, step[q] = "build"
        PROVE  ready[q] = n /\ bounds[q] = g
    <3>1. /\ q \in Processes /\ ready[q] \in Nat
          /\ n <= ready[q] /\ (n < ready[q] => initialized[x])
          /\ \A l \in 1..ready[q] : n < l => Within(layers[l], b)
          /\ bounds[q] = GrownFrom(b, layers[ready[q] + 1])
      BY <1>1, <1>5, <2>7, GroupFacts
         DEF PairRight, ComesToBuild, WorkspaceTypes, layers, b, n
    <3>2. ~ (n < ready[q])
      <4> SUFFICES ASSUME n < ready[q] PROVE FALSE
        OBVIOUS
      <4>1. n + 1 \in 1..ready[q] /\ n < n + 1
        BY <1>1, <3>1, SMT
      <4>2. Within(a, b) /\ initialized[x]
        BY <3>1, <4>1 DEF a
      <4> QED BY <1>3, <1>8, <4>2 DEF Within
    <3>3. ready[q] = n
      BY <1>1, <3>1, <3>2, SMT
    <3> QED BY <3>1, <3>3 DEF a, g
  <2>8. ASSUME NEW p \in Processes, NEW q \in Group(p)'
        PROVE  PairRight(p, q, model[p[1]])'
    <3>1. q \in Group(p) /\ q \in Processes
      BY DEF Group
    <3>2. CASE p # x /\ q # x
      <4>1. /\ PairRight(p, q, model[p[1]]) /\ bounds'[p] = bounds[p] /\ bounds'[q] = bounds[q]
            /\ step'[p] = step[p] /\ step'[q] = step[q]
            /\ initialized'[p] = initialized[p] /\ initialized'[q] = initialized[q]
        BY <1>5, <2>2, <3>1, <3>2
      <4> QED BY <1>1, <1>8, <4>1
              DEF PairRight, SettledAlike, BuildingAlike, AtBarrierAlike, ComesToBuild
    <3>3. CASE p = x /\ q = x
      BY <2>2, <3>3 DEF PairRight, SettledAlike, BuildingAlike, AtBarrierAlike, ComesToBuild
    <3>4. CASE p = x /\ q # x
      <4>1. q \in Group(x) /\ step'[p] = "build" /\ step'[q] = step[q] /\ bounds'[q] = bounds[q]
            /\ bounds'[p] = g /\ ready'[p] = n /\ ready'[q] = ready[q]
        BY <1>8, <2>2, <3>1, <3>4 DEF n
      <4> QED BY <2>7, <3>4, <4>1
              DEF PairRight, SettledAlike, BuildingAlike, AtBarrierAlike, ComesToBuild
    <3>5. CASE p # x /\ q = x
      <4>1. /\ p \in Group(x) /\ step'[q] = "build" /\ step'[p] = step[p] /\ bounds'[p] = bounds[p]
            /\ bounds'[q] = g /\ ready'[q] = n /\ ready'[p] = ready[p] /\ step[p] # "barrier"
            /\ initialized'[p] = initialized[p] /\ (model[p[1]])' = layers
        BY <1>1, <1>4, <1>5, <1>8, <2>2, <3>1, <3>5 DEF n
      <4> QED BY <2>6, <2>7, <3>5, <4>1
              DEF PairRight, SettledAlike, BuildingAlike, AtBarrierAlike, ComesToBuild, a
    <3> QED BY <3>2, <3>3, <3>4, <3>5
  <2> QED BY <2>3, <2>5, <2>8 DEF WorkspaceIInv
<1> QED BY <1>6, <1>7, <1>8 DEF Initialize

\* The ranks of a group build together what they agree on.
LEMMA BuildKeeps ==
  ASSUME WorkspaceIInv, NEW x \in Processes, Build(x)
  PROVE  WorkspaceIInv'
<1>1. /\ WorkspaceTypes /\ model' = model /\ ready' = ready /\ bounds' = bounds
      /\ \A q \in Group(x) : q \in Processes /\ step[q] = "build"
  BY GroupFacts DEF WorkspaceIInv, Build
<1>2. ASSUME NEW p \in Processes
      PROVE  IF p \in Group(x)
             THEN step'[p] = "barrier" /\ initialized'[p] = TRUE /\ alltoall'[p] = bounds[p]
             ELSE step'[p] = step[p] /\ initialized'[p] = initialized[p]
                    /\ alltoall'[p] = alltoall[p]
  BY <1>1 DEF Build, WorkspaceTypes
<1>3. WorkspaceTypes'
  BY <1>1 DEF Build, WorkspaceTypes
<1>4. ASSUME NEW p \in Processes
      PROVE  AloneRight(p, model[p[1]])'
  <2>1. AloneRight(p, model[p[1]])
    BY DEF WorkspaceIInv
  <2> QED BY <1>1, <1>2, <2>1 DEF AloneRight
<1>5. ASSUME NEW p \in Processes, NEW q \in Group(p)'
      PROVE  PairRight(p, q, model[p[1]])'
  <2>1. q \in Group(p) /\ q \in Processes /\ PairRight(p, q, model[p[1]])
    BY DEF Group, WorkspaceIInv
  <2>2. p \in Group(x) <=> q \in Group(x)
    BY <1>1, <2>1, GroupFacts DEF Group
  <2>3. CASE p \in Group(x)
    <3>1. step[p] = "build" /\ step[q] = "build" /\ step'[p] = "barrier" /\ step'[q] = "barrier"
      BY <1>1, <1>2, <2>1, <2>2, <2>3
    <3> QED BY <1>1, <2>1, <3>1
            DEF PairRight, SettledAlike, BuildingAlike, AtBarrierAlike, ComesToBuild
  <2>4. CASE p \notin Group(x)
    <3>1. step'[p] = step[p] /\ step'[q] = step[q]
          /\ initialized'[p] = initialized[p] /\ initialized'[q] = initialized[q]
      BY <1>2, <2>1, <2>2, <2>4
    <3> QED BY <1>1, <2>1, <3>1
            DEF PairRight, SettledAlike, BuildingAlike, AtBarrierAlike, ComesToBuild
  <2> QED BY <2>3, <2>4
<1> QED BY <1>3, <1>4, <1>5 DEF WorkspaceIInv

\* The barrier lets them go with the layer made.
LEMMA BarrierKeeps ==
  ASSUME WorkspaceIInv, NEW x \in Processes, Barrier(x)
  PROVE  WorkspaceIInv'
<1>1. /\ WorkspaceTypes /\ model' = model /\ bounds' = bounds
      /\ initialized' = initialized /\ alltoall' = alltoall
      /\ \A q \in Group(x) : q \in Processes /\ step[q] = "barrier"
  BY GroupFacts DEF WorkspaceIInv, Barrier, BarrierGroup
<1>2. ASSUME NEW p \in Processes
      PROVE  IF p \in Group(x)
             THEN step'[p] = "layer" /\ ready'[p] = ready[p] + 1
             ELSE step'[p] = step[p] /\ ready'[p] = ready[p]
  BY <1>1 DEF Barrier, BarrierGroup, WorkspaceTypes
<1>3. WorkspaceTypes'
  <2>1. \A p \in Processes : ready[p] + 1 \in Nat
    BY <1>1, SMT DEF WorkspaceTypes
  <2> QED BY <1>1, <2>1 DEF Barrier, BarrierGroup, WorkspaceTypes
<1>4. ASSUME NEW p \in Processes
      PROVE  AloneRight(p, model[p[1]])'
  <2>1. AloneRight(p, model[p[1]])
    BY DEF WorkspaceIInv
  <2>2. CASE p \in Group(x)
    <3>1. /\ ready[p] \in Nat /\ ready[p] < Len(model[p[1]]) /\ initialized[p]
          /\ Covers(bounds[p], model[p[1]], ready[p] + 1) /\ alltoall[p] = bounds[p]
      BY <1>1, <2>1, <2>2 DEF AloneRight, WorkspaceTypes
    <3>2. ready[p] + 1 <= Len(model[p[1]]) /\ ready[p] + 1 > 0
      <4>1. model[p[1]] \in Seq(Asked)
        BY <1>1, GroupFacts
      <4> QED BY <3>1, <4>1, SMT
    <3>3. step'[p] = "layer" /\ ready'[p] = ready[p] + 1
      BY <1>2, <2>2
    <3> QED BY <1>1, <3>1, <3>2, <3>3 DEF AloneRight
  <2>3. CASE p \notin Group(x)
    BY <1>1, <1>2, <2>1, <2>3 DEF AloneRight
  <2> QED BY <2>2, <2>3
<1>5. ASSUME NEW p \in Processes, NEW q \in Group(p)'
      PROVE  PairRight(p, q, model[p[1]])'
  <2>1. q \in Group(p) /\ q \in Processes /\ PairRight(p, q, model[p[1]])
    BY DEF Group, WorkspaceIInv
  <2>2. p \in Group(x) <=> q \in Group(x)
    BY <1>1, <2>1, GroupFacts DEF Group
  <2>3. CASE p \in Group(x)
    <3>1. step'[p] = "layer" /\ step'[q] = "layer" /\ bounds[p] = bounds[q]
      BY <1>1, <1>2, <2>1, <2>2, <2>3 DEF PairRight, AtBarrierAlike
    <3>2. initialized[p] = TRUE /\ initialized[q] = TRUE
      BY <1>1, <2>1, <2>2, <2>3 DEF WorkspaceIInv, AloneRight, WorkspaceTypes
    <3> QED BY <1>1, <3>1, <3>2
            DEF PairRight, SettledAlike, BuildingAlike, AtBarrierAlike, ComesToBuild
  <2>4. CASE p \notin Group(x)
    <3>1. step'[p] = step[p] /\ step'[q] = step[q] /\ ready'[p] = ready[p] /\ ready'[q] = ready[q]
      BY <1>2, <2>1, <2>2, <2>4
    <3> QED BY <1>1, <2>1, <3>1
            DEF PairRight, SettledAlike, BuildingAlike, AtBarrierAlike, ComesToBuild
  <2> QED BY <2>3, <2>4
<1> QED BY <1>3, <1>4, <1>5 DEF WorkspaceIInv

\* Whenever a process is between layers, every layer it has made fits the workspace
\* there is, and the ranks of its group that are between layers have the same one: for
\* any pipeline stages, group size and models, however the processes interleave.
THEOREM WorkspacesGrowTogether == WorkspaceSpec => []WorkspaceFits
<1>1. WorkspaceIInv /\ [WorkspaceNext]_workspaceVars => WorkspaceIInv'
  <2> SUFFICES ASSUME WorkspaceIInv, [WorkspaceNext]_workspaceVars PROVE WorkspaceIInv'
    OBVIOUS
  <2>1. ASSUME UNCHANGED workspaceVars PROVE WorkspaceIInv'
    <3>1. \A p : Group(p)' = Group(p)
      BY DEF Group, Processes
    <3> QED BY <2>1, <3>1 DEF workspaceVars, WorkspaceIInv, WorkspaceTypes, AloneRight,
               PairRight, SettledAlike, BuildingAlike, AtBarrierAlike, ComesToBuild
  <2> QED BY <2>1, InitializeKeeps, BuildKeeps, BarrierKeeps DEF WorkspaceNext
<1>2. WorkspaceIInv => WorkspaceFits
  <2> SUFFICES ASSUME WorkspaceIInv, NEW p \in Processes, step[p] = "layer", ready[p] > 0
               PROVE  /\ \A l \in 1..ready[p] : Within(model[p[1]][l], alltoall[p])
                      /\ \A q \in Group(p) :
                            step[q] = "layer" /\ ready[q] = ready[p] => alltoall[q] = alltoall[p]
    BY DEF WorkspaceFits, Within
  <2>1. /\ initialized[p] /\ alltoall[p] = bounds[p] /\ Covers(bounds[p], model[p[1]], ready[p])
        /\ initialized[p] \in BOOLEAN
    BY DEF WorkspaceIInv, AloneRight, WorkspaceTypes
  <2>2. ASSUME NEW q \in Group(p), step[q] = "layer" PROVE alltoall[q] = alltoall[p]
    <3>1. q \in Processes /\ PairRight(p, q, model[p[1]]) /\ AloneRight(q, model[q[1]])
      BY GroupFacts DEF WorkspaceIInv
    <3> QED BY <2>1, <2>2, <3>1 DEF PairRight, SettledAlike, AloneRight
  <2> QED BY <2>1, <2>2 DEF Covers
<1> QED BY <1>1, <1>2, WorkspaceStart, PTL DEF WorkspaceSpec

-----------------------------------------------------------------------------
(* The handles of the DeepEP and Mori managers.                              *)

HandlesSpec == HandlesInit /\ [][HandlesNext]_handlesVars

\* The layers of a model that one low-latency or v2 manager serves: the masks of the
\* one buffer it remembers, and the one number of SMs it settles, stand for them all.
LayersAlike ==
    \A s \in Setups : \A i, j \in DOMAIN s.layers :
        /\ s.kind = "ll" => LlArguments(s.layers[i]) = LlArguments(s.layers[j])
        /\ s.kind = "v2" => Theory(s.layers[i].experts, s.layers[i].topk)
                                = Theory(s.layers[j].experts, s.layers[j].topk)

HandlesTypes ==
    /\ setup \in Setups /\ sms \in EnvSms /\ librarySms \in Nat
    /\ DOMAIN given = DOMAIN Layers
    /\ DOMAIN gaveUp = DOMAIN handles

\* A handle was made with its layer's own arguments, and is there; a buffer was made for
\* some layer.
GivenOwn ==
    \A i \in DOMAIN Layers :
        given[i] # NoHandle => given[i] = Arguments(Layers[i]) /\ given[i] \in DOMAIN handles
MadeForLayers == \A key \in DOMAIN handles : \E i \in DOMAIN Layers : key = Arguments(Layers[i])

\* The library's setting is this manager's from the first buffer on.
SmsSet ==
    Kind = "ht" => \A key \in DOMAIN handles : handles[key] = sms /\ librarySms <= sms

\* A low-latency manager remembers the one buffer there is; the others remember none.
OneBuffer ==
    /\ Kind = "ll" => \A key \in DOMAIN handles : key = last
    /\ Kind # "ll" => last = NoHandle

TheorySettled ==
    Kind = "v2" => \A i \in DOMAIN Layers :
        given[i] # NoHandle \/ theory # 0 => theory = Theory(Layers[i].experts, Layers[i].topk)

FaultFits == fault # "none" => (fault = "fault" <=> \E k \in DOMAIN gaveUp : gaveUp[k] # {})

HandlesIInv ==
    HandlesTypes /\ GivenOwn /\ MadeForLayers /\ SmsSet /\ OneBuffer /\ TheorySettled /\ FaultFits

\* The arguments of a buffer are never the mark of a layer without one, and an added
\* handle leaves the others as they were.
LEMMA ArgumentsMade ==
  ASSUME setup \in Setups, NEW i \in DOMAIN Layers
  PROVE  Arguments(Layers[i]) # NoHandle
<1>1. Kind \in {"ht", "ll", "v2", "mori"}
  BY HandlesAssumption DEF Kind
<1> QED BY <1>1 DEF Arguments, NoHandle, HtArguments, LlArguments, V2Arguments, MoriArguments

LEMMA ExtendedFacts ==
  ASSUME NEW f, NEW key, NEW value
  PROVE  /\ DOMAIN Extended(f, key, value) = DOMAIN f \cup {key}
         /\ \A k \in DOMAIN f : Extended(f, key, value)[k] = f[k]
         /\ key \notin DOMAIN f => Extended(f, key, value)[key] = value
  BY DEF Extended

LEMMA NoneThere == DOMAIN << >> = {}
  OBVIOUS

LEMMA HandlesStart == HandlesInit => HandlesIInv
<1> SUFFICES ASSUME HandlesInit PROVE HandlesIInv
  OBVIOUS
<1>1. HandlesTypes
  BY HandlesAssumption DEF HandlesInit, HandlesTypes
<1>2. DOMAIN handles = {} /\ \A i \in DOMAIN Layers : given[i] = NoHandle
  BY NoneThere DEF HandlesInit
<1> QED BY <1>1, <1>2 DEF HandlesInit, HandlesIInv, GivenOwn, MadeForLayers, SmsSet, OneBuffer,
                          TheorySettled, FaultFits

\* A layer gets its handle.
LEMMA GetHandleKeeps ==
  ASSUME LayersAlike, HandlesIInv, NEW x \in DOMAIN Layers, GetHandle(x)
  PROVE  HandlesIInv'
<1> DEFINE key == Arguments(Layers[x])
<1>1. /\ HandlesTypes /\ setup' = setup /\ sms' = sms /\ fault' = "none"
      /\ given' = [given EXCEPT ![x] = key]
      /\ handles' = Extended(handles, key, SmsAtMaking)
      /\ gaveUp' = Extended(gaveUp, key, {})
      /\ librarySms' = IF Kind = "ht" THEN sms ELSE librarySms
      /\ last' = Newest(key) /\ theory' = NumSms(Layers[x])
  BY DEF GetHandle, HandlesIInv
<1>2. /\ Layers' = Layers /\ Kind' = Kind
      /\ \A i \in DOMAIN Layers : Arguments(Layers[i])' = Arguments(Layers[i])
  BY <1>1 DEF Layers, Kind, Arguments, HtArguments, LlArguments, V2Arguments, MoriArguments,
              RdmaSize, QueuePairs, Crosses
<1>3. sms \in Nat
  BY <1>1, HandlesAssumption DEF HandlesTypes
<1> HIDE DEF key
<1>4. /\ DOMAIN handles' = DOMAIN handles \cup {key} /\ DOMAIN gaveUp' = DOMAIN gaveUp \cup {key}
      /\ \A k \in DOMAIN handles : handles'[k] = handles[k]
      /\ key \notin DOMAIN handles => handles'[key] = SmsAtMaking
  <2>1. /\ DOMAIN Extended(handles, key, SmsAtMaking) = DOMAIN handles \cup {key}
        /\ \A k \in DOMAIN handles : Extended(handles, key, SmsAtMaking)[k] = handles[k]
        /\ key \notin DOMAIN handles => Extended(handles, key, SmsAtMaking)[key] = SmsAtMaking
    BY ExtendedFacts
  <2>2. DOMAIN Extended(gaveUp, key, {}) = DOMAIN gaveUp \cup {key}
    BY ExtendedFacts
  <2> QED BY <1>1, <2>1, <2>2
<1>5. /\ DOMAIN given' = DOMAIN given /\ given'[x] = key
      /\ \A i \in DOMAIN Layers : i # x => given'[i] = given[i]
  BY <1>1 DEF HandlesTypes
<1>6. HandlesTypes'
  BY <1>1, <1>2, <1>3, <1>4, <1>5 DEF HandlesTypes
<1>7. GivenOwn'
  <2>1. ASSUME NEW i \in DOMAIN Layers, given'[i] # NoHandle
        PROVE  given'[i] = Arguments(Layers[i]) /\ given'[i] \in DOMAIN handles'
    BY <2>1, <1>4, <1>5 DEF HandlesIInv, GivenOwn, key
  <2> QED BY <1>2, <2>1 DEF GivenOwn
<1>8. MadeForLayers'
  <2>1. \A k \in DOMAIN handles' : \E i \in DOMAIN Layers : k = Arguments(Layers[i])
    BY <1>4 DEF HandlesIInv, MadeForLayers, key
  <2> QED BY <1>2, <2>1 DEF MadeForLayers
<1>9. SmsSet'
  <2> SUFFICES ASSUME Kind = "ht", NEW k \in DOMAIN handles'
               PROVE  handles'[k] = sms /\ librarySms' <= sms
    BY <1>1, <1>2 DEF SmsSet
  <2>1. librarySms' <= sms
    BY <1>1, <1>3, SMT
  <2>2. handles'[k] = sms
    BY <1>4 DEF HandlesIInv, SmsSet, SmsAtMaking
  <2> QED BY <2>1, <2>2
<1>10. OneBuffer'
  <2>1. CASE Kind = "ll"
    <3>1. last' = key
      BY <1>1, <2>1 DEF Newest
    <3>2. ASSUME NEW k \in DOMAIN handles PROVE k = key
      <4>1. PICK i \in DOMAIN Layers : k = Arguments(Layers[i])
        BY DEF HandlesIInv, MadeForLayers
      <4>2. setup \in Setups /\ setup.kind = "ll"
        BY <1>1, <2>1 DEF HandlesTypes, Kind
      <4>3. LlArguments(Layers[i]) = LlArguments(Layers[x])
        BY <4>2 DEF LayersAlike, Layers
      <4> QED BY <4>1, <4>3, <2>1 DEF Arguments, key
    <3> QED BY <1>2, <1>4, <2>1, <3>1, <3>2 DEF OneBuffer
  <2>2. CASE Kind # "ll"
    BY <1>1, <1>2, <2>2 DEF Newest, OneBuffer, HandlesIInv
  <2> QED BY <2>1, <2>2
<1>11. TheorySettled'
  <2> SUFFICES ASSUME Kind = "v2", NEW i \in DOMAIN Layers
               PROVE  theory' = Theory(Layers[i].experts, Layers[i].topk)
    BY <1>2 DEF TheorySettled, Theory
  <2>1. setup \in Setups /\ setup.kind = "v2"
    BY <1>1 DEF HandlesTypes, Kind
  <2>2. Theory(Layers[i].experts, Layers[i].topk) = Theory(Layers[x].experts, Layers[x].topk)
    BY <2>1 DEF LayersAlike, Layers
  <2>3. theory # 0 => theory = Theory(Layers[i].experts, Layers[i].topk)
    BY DEF HandlesIInv, TheorySettled
  <2> QED BY <1>1, <2>2, <2>3 DEF NumSms
<1>12. FaultFits'
  BY <1>1 DEF FaultFits
<1> QED BY <1>6, <1>7, <1>8, <1>9, <1>10, <1>11, <1>12 DEF HandlesIInv

LEMMA HandlesStep ==
  ASSUME LayersAlike, HandlesIInv, [HandlesNext]_handlesVars
  PROVE  HandlesIInv'
<1>1. /\ HandlesTypes /\ GivenOwn /\ MadeForLayers /\ SmsSet /\ OneBuffer /\ TheorySettled
      /\ FaultFits /\ setup \in Setups
  BY DEF HandlesIInv, HandlesTypes
<1> DEFINE Frame == /\ setup' = setup /\ sms' = sms
                    /\ Layers' = Layers /\ Kind' = Kind
                    /\ \A i \in DOMAIN Layers : Arguments(Layers[i])' = Arguments(Layers[i])
<1>2. setup' = setup /\ sms' = sms => Frame
  BY DEF Layers, Kind, Arguments, HtArguments, LlArguments, V2Arguments, MoriArguments,
         RdmaSize, QueuePairs, Crosses
<1>3. ASSUME NEW i \in DOMAIN Layers, GetHandle(i)
      PROVE  HandlesIInv'
  BY <1>3, GetHandleKeeps
<1>4. ASSUME NEW n \in WantedSms, SetNumSms(n)
      PROVE  HandlesIInv'
  <2>1. Capped(n) \in Nat /\ Capped(n) <= sms
    <3>1. n \in Nat /\ sms \in Nat
      BY <1>1, HandlesAssumption DEF HandlesTypes
    <3> QED BY <3>1, SMT DEF Capped
  <2>2. Frame /\ UNCHANGED << handles, given, theory, last, gaveUp >> /\ librarySms' = Capped(n)
        /\ fault' = "none"
    BY <1>2, <1>4 DEF SetNumSms
  <2> QED BY <1>1, <2>1, <2>2 DEF HandlesIInv, HandlesTypes, GivenOwn, MadeForLayers, SmsSet,
              OneBuffer, TheorySettled, FaultFits, Theory
<1>5. ASSUME NEW key \in DOMAIN gaveUp, NEW r \in PeerRanks, GiveUp(key, r)
      PROVE  HandlesIInv'
  <2>1. Frame /\ UNCHANGED << librarySms, handles, given, theory, last >> /\ fault' = "none"
        /\ DOMAIN gaveUp' = DOMAIN gaveUp
    BY <1>2, <1>5 DEF GiveUp
  <2> QED BY <1>1, <2>1 DEF HandlesIInv, HandlesTypes, GivenOwn, MadeForLayers, SmsSet,
              OneBuffer, TheorySettled, FaultFits, Theory
<1>6. CASE QueryFault
  <2>1. Frame /\ UNCHANGED << librarySms, handles, given, theory, last, gaveUp >>
        /\ last \in DOMAIN handles /\ fault' = IF gaveUp[last] # {} THEN "fault" ELSE "fine"
    BY <1>2, <1>6 DEF QueryFault
  <2>2. Kind = "ll"
    <3>1. last # NoHandle
      BY <1>1, <2>1, ArgumentsMade DEF MadeForLayers
    <3> QED BY <1>1, <3>1 DEF OneBuffer
  <2>3. \A k \in DOMAIN gaveUp : k = last
    BY <1>1, <2>2 DEF OneBuffer, HandlesTypes
  <2>4. fault' = "fault" <=> \E k \in DOMAIN gaveUp : gaveUp[k] # {}
    BY <1>1, <2>1, <2>3 DEF HandlesTypes
  <2> QED BY <1>1, <2>1, <2>4 DEF HandlesIInv, HandlesTypes, GivenOwn, MadeForLayers, SmsSet,
              OneBuffer, TheorySettled, FaultFits, Theory
<1>7. CASE CleanBuffers
  <2>1. Frame /\ UNCHANGED << librarySms, handles, given, theory, last >> /\ fault' = "none"
        /\ DOMAIN gaveUp' = DOMAIN gaveUp
    BY <1>2, <1>7 DEF CleanBuffers
  <2> QED BY <1>1, <2>1 DEF HandlesIInv, HandlesTypes, GivenOwn, MadeForLayers, SmsSet,
              OneBuffer, TheorySettled, FaultFits, Theory
<1>8. CASE Destroy
  <2>1. /\ Frame /\ UNCHANGED << librarySms, last >> /\ fault' = "none" /\ theory' = 0
        /\ DOMAIN handles' = {} /\ DOMAIN gaveUp' = {} /\ DOMAIN given' = DOMAIN Layers
        /\ \A i \in DOMAIN Layers : given'[i] = NoHandle
    BY <1>2, <1>8, NoneThere DEF Destroy
  <2> QED BY <1>1, <2>1 DEF HandlesIInv, HandlesTypes, GivenOwn, MadeForLayers, SmsSet,
              OneBuffer, TheorySettled, FaultFits
<1>9. CASE UNCHANGED handlesVars
  <2>1. Frame /\ UNCHANGED << librarySms, handles, given, theory, last, gaveUp, fault >>
    BY <1>2, <1>9 DEF handlesVars
  <2> QED BY <1>1, <2>1 DEF HandlesIInv, HandlesTypes, GivenOwn, MadeForLayers, SmsSet,
              OneBuffer, TheorySettled, FaultFits, Theory
<1> QED BY <1>3, <1>4, <1>5, <1>6, <1>7, <1>8, <1>9 DEF HandlesNext

\* The buffer that a layer was handed is large enough for it, whichever layers share it,
\* in whatever order they ask and whenever the callers change the SMs; no buffer was laid
\* out for fewer SMs than the library runs with; and a query reports a fault exactly while
\* some kernel has given up on a rank: for any model whose low-latency layers are alike
\* and whose v2 layers have one routing.
THEOREM HandlesSuit == LayersAlike => (HandlesSpec => []HandlesRight)
<1> SUFFICES ASSUME LayersAlike PROVE HandlesSpec => []HandlesRight
  OBVIOUS
<1>1. HandlesIInv /\ [HandlesNext]_handlesVars => HandlesIInv'
  BY HandlesStep
<1>2. HandlesIInv => HandlesRight
  <2> SUFFICES ASSUME HandlesIInv PROVE HandlesRight
    OBVIOUS
  <2>1. setup \in Setups /\ sms \in Nat /\ librarySms \in Nat
        /\ Kind \in {"ht", "ll", "v2", "mori"}
    BY HandlesAssumption DEF HandlesIInv, HandlesTypes, Kind
  <2>2. ASSUME NEW i \in DOMAIN Layers, given[i] # NoHandle
        PROVE  given[i] \in DOMAIN handles /\ Suits(Layers[i], given[i])
    <3>1. given[i] = Arguments(Layers[i]) /\ given[i] \in DOMAIN handles
      BY <2>2 DEF HandlesIInv, GivenOwn
    <3>2. Layers[i] \in Ask
      <4>1. setup.layers \in Seq(Ask)
        BY <2>1, HandlesAssumption
      <4> QED BY <4>1 DEF Layers
    <3>3. /\ SizeHint(Layers[i]) <= SizeHint(Layers[i]) /\ Layers[i].local <= Layers[i].local
          /\ Layers[i].tokens <= Layers[i].tokens /\ Layers[i].hidden <= Layers[i].hidden
      <4>1. /\ Layers[i].tokens \in Nat /\ Layers[i].hidden \in Nat /\ Layers[i].experts \in Nat
            /\ Layers[i].local \in Nat
        BY <3>2 DEF Ask
      <4>2. Layers[i].tokens * Layers[i].hidden \in Nat
        BY <4>1, SMT
      <4>3. SizeHint(Layers[i]) \in Nat
        BY <4>1, <4>2, SMT DEF SizeHint
      <4> QED BY <4>1, <4>3, SMT
    <3>4. CASE Kind = "ht"
      <4>1. librarySms <= sms
        BY <3>1, <3>4 DEF HandlesIInv, SmsSet
      <4>2. sms \div 2 >= librarySms \div 2
        BY <2>1, <4>1, SMT
      <4>3. Crosses => given[i][2] = sms \div 2
        BY <3>1, <3>4 DEF Arguments, HtArguments, QueuePairs
      <4> QED BY <3>1, <3>4, <4>2, <4>3 DEF Suits
    <3>5. CASE Kind = "ll"
      <4>1. given[i][1] = SizeHint(Layers[i]) /\ given[i][2] = Layers[i].local
        BY <3>1, <3>5 DEF Arguments, LlArguments
      <4>2. given[i][1] >= SizeHint(Layers[i]) /\ given[i][2] >= Layers[i].local
        BY <3>3, <4>1
      <4> QED BY <3>1, <3>5, <4>2 DEF Suits
    <3>6. CASE Kind = "v2"
      <4>1. given[i][1] = Layers[i].tokens /\ given[i][2] = Layers[i].hidden
        BY <3>1, <3>6 DEF Arguments, V2Arguments
      <4>2. theory = Theory(Layers[i].experts, Layers[i].topk)
        BY <2>2, <3>6 DEF HandlesIInv, TheorySettled
      <4>3. given[i][1] >= Layers[i].tokens /\ given[i][2] >= Layers[i].hidden
        BY <3>3, <4>1
      <4> QED BY <3>1, <3>6, <4>2, <4>3 DEF Suits
    <3>7. CASE Kind = "mori"
      <4>1. /\ given[i][1] = Layers[i].tokens /\ given[i][2] = Layers[i].hidden
            /\ given[i][3] = Layers[i].local /\ given[i][4] = Layers[i].topk
        BY <3>1, <3>7 DEF Arguments, MoriArguments
      <4>2. given[i][1] >= Layers[i].tokens /\ given[i][2] >= Layers[i].hidden
        BY <3>3, <4>1
      <4> QED BY <3>1, <3>7, <4>1, <4>2 DEF Suits
    <3> QED BY <2>1, <3>4, <3>5, <3>6, <3>7
  <2>3. Kind = "ht" => \A key \in DOMAIN handles : librarySms <= handles[key]
    BY DEF HandlesIInv, SmsSet
  <2> QED BY <2>2, <2>3 DEF HandlesRight, HandlesIInv, FaultFits
<1> QED BY <1>1, <1>2, HandlesStart, PTL DEF HandlesSpec

-----------------------------------------------------------------------------
(* The naive dispatch: groups and what they hold.                            *)

\* Sums of a layer's module are the sums of the lemmas.
LEMMA SumIsSumOver ==
  ASSUME NEW f, NEW S
  PROVE  Total(f, S) = SumOver(f, S)
BY DEF Total, SumOver

\* The layout and the batches, which no step changes.
LayoutRight ==
    /\ layout \in Layouts
    /\ batches \in [1..Forwards -> [0..(layout.dp - 1) -> 0..MaxBatch]]

\* The types of a layout.
LEMMA LayoutTyped ==
  ASSUME LayoutRight
  PROVE  /\ layout.dp \in Nat \ {0} /\ layout.pcp \in Nat \ {0} /\ layout.tp \in Nat \ {0}
         /\ layout.sp \in BOOLEAN /\ layout.lora \in BOOLEAN
         /\ layout.path \in {"modular", "monolithic", "runner"}
         /\ layout.scale \in {"rows", "static", "deferred"}
         /\ layout.dp = 1 \/ layout.pcp = 1
         /\ layout.sp => layout.pcp = 1
         /\ layout.lora => layout.path = "modular"
BY DispatchAssumption DEF LayoutRight

\* The coordinates of a rank.
LEMMA Coordinates ==
  ASSUME LayoutRight
  PROVE  /\ \A r \in Members : /\ r = << r[1], r[2], r[3] >>
                               /\ r[1] \in 0..(layout.dp - 1) /\ r[2] \in 0..(layout.pcp - 1)
                               /\ r[3] \in 0..(layout.tp - 1)
         /\ \A d \in 0..(layout.dp - 1), p \in 0..(layout.pcp - 1), t \in 0..(layout.tp - 1) :
                << d, p, t >> \in Members
BY DEF Members

\* A group is its numbered peers, and everyone in it numbers them alike.
LEMMA Peers ==
  ASSUME LayoutRight, NEW r \in Members
  PROVE  /\ WorldSize \in Nat \ {0} /\ Index(r) \in 0..(WorldSize - 1)
         /\ Peer(r, Index(r)) = r
         /\ \A j \in 0..(WorldSize - 1) : Peer(r, j) \in CommGroup(r)
         /\ r \in CommGroup(r)
         /\ \A q \in CommGroup(r) : /\ q \in Members /\ CommGroup(q) = CommGroup(r)
                                    /\ \A j : Peer(q, j) = Peer(r, j)
<1> DEFINE d == layout.dp
           p == layout.pcp
           t == layout.tp
<1>1. d \in Nat \ {0} /\ p \in Nat \ {0} /\ t \in Nat \ {0} /\ (d = 1 \/ p = 1)
      /\ (layout.sp => p = 1)
  BY LayoutTyped
<1>2. /\ r = << r[1], r[2], r[3] >> /\ r[1] \in 0..(d - 1) /\ r[2] \in 0..(p - 1)
      /\ r[3] \in 0..(t - 1)
  BY Coordinates
<1>3. r \in CommGroup(r)
  BY DEF CommGroup
<1>4. ASSUME NEW q \in CommGroup(r)
      PROVE  q \in Members /\ CommGroup(q) = CommGroup(r) /\ \A j : Peer(q, j) = Peer(r, j)
  BY <1>4 DEF CommGroup, Peer
<1>5. CASE layout.sp
  <2>1. WorldSize = d * t /\ Index(r) = t * r[1] + r[3]
    BY <1>5 DEF WorldSize, Index
  <2>2. \A j : Peer(r, j) = << j \div t, 0, j % t >>
    BY <1>5 DEF Peer
  <2>3. r[2] = 0 /\ r[1] \in Nat /\ r[3] \in 0..(t - 1)
    BY <1>1, <1>2, <1>5
  <2> HIDE DEF d, p, t
  <2>4. d * t \in Nat \ {0}
    BY <1>1, SMT
  <2>5. t * r[1] + r[3] \in 0..(d * t - 1)
    <3>1. r[1] + 1 \in Nat /\ r[1] + 1 <= d /\ t \in Nat /\ d \in Nat /\ t <= t
      BY <1>1, <1>2
    <3>2. (r[1] + 1) * t <= d * t
      BY <3>1, ProductMonotone
    <3>3. (r[1] + 1) * t = t * r[1] + t /\ t * r[1] \in Nat
      BY <2>3, <3>1, SMT
    <3> DEFINE x == t * r[1]
               y == d * t
    <3>4. x \in Nat /\ y \in Nat /\ x + t <= y
      BY <2>4, <3>2, <3>3
    <3> HIDE DEF x, y
    <3>5. x + r[3] \in 0..(y - 1)
      BY <1>1, <2>3, <3>4
    <3> QED BY <3>5 DEF x, y
  <2>6. (t * r[1] + r[3]) \div t = r[1] /\ (t * r[1] + r[3]) % t = r[3]
    BY <1>1, <2>3, DivUnique
  <2>7. Peer(r, Index(r)) = r
    BY <1>2, <2>1, <2>2, <2>3, <2>6
  <2>8. ASSUME NEW j \in 0..(d * t - 1) PROVE Peer(r, j) \in Members
    <3>1. j \in Nat /\ d \in Nat /\ d * t \in Nat
      BY <2>4, <1>1
    <3>2. PICK a \in Nat, b \in 0..(t - 1) : j = t * a + b /\ j \div t = a /\ j % t = b
      BY <1>1, <3>1, DivMod
    <3>3. a <= d - 1
      <4>1. ASSUME d <= a PROVE FALSE
        <5>1. t * d <= t * a
          BY <1>1, <3>1, <4>1, ProductMonotone
        <5>2. t * d = d * t /\ t * a \in Nat
          BY <1>1, <3>2, SMT
        <5> DEFINE x == d * t
                   y == t * a
        <5>3. x \in Nat /\ y \in Nat /\ j <= x - 1 /\ j = y + b /\ x <= y
          BY <3>1, <3>2, <5>1, <5>2
        <5> HIDE DEF x, y
        <5> QED BY <5>3
      <4> QED BY <1>1, <4>1
    <3>4. a \in 0..(d - 1) /\ 0 \in 0..(p - 1)
      BY <1>1, <3>3
    <3>5. << a, 0, b >> \in Members
      BY <3>2, <3>4, Coordinates DEF d, p, t
    <3> QED BY <2>2, <3>2, <3>5
  <2>9. CommGroup(r) = Members
    BY <1>5 DEF CommGroup
  <2> QED BY <1>3, <1>4, <2>1, <2>4, <2>5, <2>7, <2>8, <2>9
<1>6. CASE ~ layout.sp /\ d > 1
  <2>1. WorldSize = d /\ Index(r) = r[1] /\ \A j : Peer(r, j) = << j, r[2], r[3] >>
    BY <1>6 DEF WorldSize, Index, Peer
  <2>2. ASSUME NEW j \in 0..(d - 1) PROVE << j, r[2], r[3] >> \in CommGroup(r)
    <3>1. << j, r[2], r[3] >> \in Members
      BY <1>2, Coordinates
    <3> QED BY <1>6, <3>1 DEF CommGroup
  <2> QED BY <1>1, <1>2, <1>3, <1>4, <2>1, <2>2
<1>7. CASE ~ layout.sp /\ ~ (d > 1)
  <2>1. WorldSize = p /\ Index(r) = r[2] /\ \A j : Peer(r, j) = << r[1], j, r[3] >>
    BY <1>7 DEF WorldSize, Index, Peer
  <2>2. ASSUME NEW j \in 0..(p - 1) PROVE << r[1], j, r[3] >> \in CommGroup(r)
    <3>1. << r[1], j, r[3] >> \in Members
      BY <1>2, Coordinates
    <3> QED BY <1>7, <3>1 DEF CommGroup
  <2> QED BY <1>1, <1>2, <1>3, <1>4, <2>1, <2>2
<1> QED BY <1>5, <1>6, <1>7

\* Ranks of one reduction; every rank shares a group of experts with one of them.
LEMMA Reducers ==
  ASSUME LayoutRight, NEW r \in Members
  PROVE  /\ r \in ReduceGroup(r)
         /\ \A q \in ReduceGroup(r) : /\ q \in Members /\ ReduceGroup(q) = ReduceGroup(r)
                                      /\ q[1] = r[1] /\ q[2] = r[2]
                                      /\ layout.sp => q = r
         /\ \A m \in Members : \E e \in ReduceGroup(r) :
                \A q \in ReduceGroup(r) : m \in CommGroup(q) <=> q = e
<1>1. r \in ReduceGroup(r)
  BY DEF ReduceGroup
<1>2. ASSUME NEW q \in ReduceGroup(r)
      PROVE  /\ q \in Members /\ ReduceGroup(q) = ReduceGroup(r)
             /\ q[1] = r[1] /\ q[2] = r[2] /\ (layout.sp => q = r)
  BY <1>2 DEF ReduceGroup
<1>3. ASSUME NEW m \in Members
      PROVE  \E e \in ReduceGroup(r) : \A q \in ReduceGroup(r) : m \in CommGroup(q) <=> q = e
  <2>1. CASE layout.sp
    <3>1. \A q \in ReduceGroup(r) : m \in CommGroup(q) <=> q = r
      BY <1>2, <2>1 DEF CommGroup
    <3> QED BY <1>1, <3>1
  <2>2. CASE ~ layout.sp
    <3> DEFINE e == << r[1], r[2], m[3] >>
    <3>1. e \in Members /\ e[1] = r[1] /\ e[2] = r[2] /\ e[3] = m[3]
      BY Coordinates
    <3>2. e \in ReduceGroup(r)
      BY <2>2, <3>1 DEF ReduceGroup
    <3>3. ASSUME NEW q \in ReduceGroup(r) PROVE m \in CommGroup(q) <=> q = e
      <4>1. q \in Members /\ q = << q[1], q[2], q[3] >> /\ q[1] = r[1] /\ q[2] = r[2]
        BY <1>2, Coordinates
      <4>2. m[2] = q[2] \/ layout.dp = 1
        BY <4>1, LayoutTyped, Coordinates
      <4>3. m[1] = q[1] \/ layout.dp > 1
        BY <4>1, LayoutTyped, Coordinates
      <4>4. m \in CommGroup(q) <=> m[3] = q[3]
        BY <2>2, <4>2, <4>3, LayoutTyped DEF CommGroup
      <4>5. q = e <=> m[3] = q[3]
        BY <4>1
      <4> QED BY <4>4, <4>5
    <3> HIDE DEF e
    <3> QED BY <3>2, <3>3
  <2> QED BY <2>1, <2>2, LayoutTyped
<1> QED BY <1>1, <1>2, <1>3

\* There are finitely many ranks.
LEMMA FewMembers ==
  ASSUME LayoutRight
  PROVE  /\ IsFiniteSet(Members)
         /\ \A r \in Members : IsFiniteSet(CommGroup(r)) /\ IsFiniteSet(ReduceGroup(r))
<1> DEFINE A == 0..(layout.dp - 1)
           B == 0..(layout.pcp - 1)
           C == 0..(layout.tp - 1)
           f == [x \in (A \X B) \X C |-> << x[1][1], x[1][2], x[2] >>]
<1>1. IsFiniteSet(A) /\ IsFiniteSet(B) /\ IsFiniteSet(C)
  <2>1. layout.dp - 1 \in Int /\ layout.pcp - 1 \in Int /\ layout.tp - 1 \in Int
    BY LayoutTyped
  <2> DEFINE a == layout.dp - 1
             b == layout.pcp - 1
             c == layout.tp - 1
  <2>2. a \in Int /\ b \in Int /\ c \in Int
    BY <2>1
  <2> HIDE DEF a, b, c
  <2>3. IsFiniteSet(0..a) /\ IsFiniteSet(0..b) /\ IsFiniteSet(0..c)
    BY <2>2, FS_Interval
  <2> QED BY <2>3 DEF a, b, c
<1>2. IsFiniteSet(A \X B)
  <2> HIDE DEF A, B, C
  <2> QED BY <1>1, FS_Product
<1>3. IsFiniteSet((A \X B) \X C)
  <2> HIDE DEF A, B, C
  <2> QED BY <1>1, <1>2, FS_Product
<1>4. Members = {<< x[1][1], x[1][2], x[2] >> : x \in (A \X B) \X C}
  <2>1. \A r \in A \X B \X C : r = << r[1], r[2], r[3] >>
                             /\ r[1] \in A /\ r[2] \in B /\ r[3] \in C
    OBVIOUS
  <2> HIDE DEF A, B, C, f
  <2>2. ASSUME NEW r \in A \X B \X C
        PROVE  \E x \in (A \X B) \X C : r = << x[1][1], x[1][2], x[2] >>
    <3>1. << << r[1], r[2] >>, r[3] >> \in (A \X B) \X C
      BY <2>1
    <3> QED BY <2>1, <3>1
  <2>3. ASSUME NEW x \in (A \X B) \X C
        PROVE  << x[1][1], x[1][2], x[2] >> \in A \X B \X C
    OBVIOUS
  <2> QED BY <2>2, <2>3 DEF Members, A, B, C
<1>5. IsFiniteSet(Members)
  <2>1. \A x \in (A \X B) \X C : f[x] = << x[1][1], x[1][2], x[2] >>
    OBVIOUS
  <2>2. {f[x] : x \in (A \X B) \X C} = Members
    BY <1>4, <2>1
  <2> DEFINE D == (A \X B) \X C
  <2> HIDE DEF A, B, C, D
  <2>3. DOMAIN f = D /\ f \in [D -> {f[x] : x \in D}]
    BY DEF f, D
  <2>4. f \in Surjection(D, {f[x] : x \in D})
    BY <2>3 DEF Surjection
  <2>5. IsFiniteSet(D)
    BY <1>3 DEF D
  <2> HIDE DEF f
  <2>6. IsFiniteSet({f[x] : x \in D})
    BY <2>4, <2>5, FS_Surjection
  <2> QED BY <2>2, <2>6 DEF D
<1>6. ASSUME NEW r \in Members PROVE IsFiniteSet(CommGroup(r)) /\ IsFiniteSet(ReduceGroup(r))
  <2>1. CommGroup(r) \in SUBSET Members /\ ReduceGroup(r) \in SUBSET Members
    BY DEF CommGroup, ReduceGroup
  <2> QED BY <1>5, <2>1, FS_Subset
<1> QED BY <1>5, <1>6

\* A sum of zeros, and one with a single one among them.
LEMMA SumZero ==
  ASSUME NEW f, NEW S, IsFiniteSet(S), \A x \in S : f[x] = 0
  PROVE  Total(f, S) = 0
<1> DEFINE T == {s \in SUBSET S : SumOver(f, s) # 0}
<1>1. T = {}
  <2> SUFFICES ASSUME T # {} PROVE FALSE
    OBVIOUS
  <2>1. T \subseteq SUBSET S
    OBVIOUS
  <2> HIDE DEF T
  <2>2. PICK s \in T : \A y \in T : y \subseteq s => y = s
    BY <2>1, LeastSubset
  <2>3. s \in SUBSET S /\ SumOver(f, s) # 0 /\ IsFiniteSet(s)
    BY <2>1, <2>2, FS_Subset DEF T
  <2>4. s # {}
    BY <2>3, SumEmpty
  <2>5. Pick(s) \in s /\ f[Pick(s)] = 0
    BY <2>3, <2>4, PickIn
  <2>6. s \ {Pick(s)} \notin T
    BY <2>2, <2>5
  <2>7. SumOver(f, s \ {Pick(s)}) = 0
    BY <2>3, <2>6 DEF T
  <2>8. SumOver(f, s) = f[Pick(s)] + SumOver(f, s \ {Pick(s)})
    BY <2>3, <2>4, SumStep
  <2> QED BY <2>3, <2>5, <2>7, <2>8
<1> QED BY <1>1, SumIsSumOver

LEMMA SumOne ==
  ASSUME NEW f, NEW S, IsFiniteSet(S), NEW e \in S, f[e] = 1, \A x \in S : x # e => f[x] = 0
  PROVE  Total(f, S) = 1
<1>1. \A x \in S : f[x] \in Nat
  OBVIOUS
<1>2. SumOver(f, S) = f[e] + SumOver(f, S \ {e})
  BY <1>1, SumRemove
<1>3. IsFiniteSet(S \ {e}) /\ \A x \in S \ {e} : f[x] = 0
  BY FS_Subset
<1>4. SumOver(f, S \ {e}) = 0
  BY <1>3, SumZero, SumIsSumOver
<1> QED BY <1>2, <1>4, SumIsSumOver

-----------------------------------------------------------------------------
(* The naive dispatch: sizes, and the rows that a group puts together.       *)

\* The tokens of a rank in layer f, and those of its group.
CountAt(f, q) == Cut(batches[f][q[1]])
TokenAt(f, q, i) == << f, q[1], q[2], IF layout.sp THEN q[3] ELSE 0, i >>
SizesAt(f, r) == [j \in 0..(WorldSize - 1) |-> CountAt(f, Peer(r, j))]

\* Counts are numbers, and a token shows the layer and the rank it is of.
LEMMA CountsTyped ==
  ASSUME LayoutRight, NEW f \in 1..Forwards, NEW r \in Members
  PROVE  CountAt(f, r) \in Nat
<1>1. batches[f][r[1]] \in Nat
  BY Coordinates, DispatchAssumption DEF LayoutRight
<1> DEFINE n == batches[f][r[1]]
           t == layout.tp
<1>2. n \in Nat /\ t \in Nat \ {0}
  BY <1>1, LayoutTyped
<1> HIDE DEF n, t
<1>3. n + t - 1 \in Nat
  BY <1>2
<1>4. (n + t - 1) \div t \in Nat
  BY <1>2, <1>3, DivBounds
<1> QED BY <1>2, <1>4 DEF CountAt, Cut, CeilDiv, n, t

\* The sizes that the forward context keeps are those of the group.
LEMMA SizesTyped ==
  ASSUME LayoutRight, NEW f \in 1..Forwards, NEW r \in Members
  PROVE  /\ SizesAt(f, r) \in [0..(WorldSize - 1) -> Nat]
         /\ SizesAt(f, r)[Index(r)] = CountAt(f, r)
         /\ layout.dp = 1 => SizesAt(f, r) = [j \in 0..(WorldSize - 1) |-> CountAt(f, r)]
         /\ layout.dp # 1 => SizesAt(f, r) = ChunkSizes(f)
         /\ \A q \in CommGroup(r) : SizesAt(f, q) = SizesAt(f, r)
<1>1. \A j \in 0..(WorldSize - 1) : Peer(r, j) \in Members /\ CountAt(f, Peer(r, j)) \in Nat
  BY Peers, CountsTyped
<1>2. SizesAt(f, r) \in [0..(WorldSize - 1) -> Nat]
  BY <1>1 DEF SizesAt
<1>3. SizesAt(f, r)[Index(r)] = CountAt(f, r)
  BY Peers DEF SizesAt
<1>4. ASSUME layout.dp = 1
      PROVE  SizesAt(f, r) = [j \in 0..(WorldSize - 1) |-> CountAt(f, r)]
  <2>1. \A q \in Members : q[1] = 0
    BY <1>4, Coordinates
  <2>2. \A j \in 0..(WorldSize - 1) : CountAt(f, Peer(r, j)) = CountAt(f, r)
    BY <1>1, <2>1 DEF CountAt
  <2> QED BY <2>2 DEF SizesAt
<1>5. ASSUME layout.dp # 1
      PROVE  SizesAt(f, r) = ChunkSizes(f)
  <2>1. layout.dp > 1 /\ layout.dp \in Nat /\ layout.tp \in Nat /\ layout.sp \in BOOLEAN
    BY <1>5, LayoutTyped
  <2>2. CASE layout.sp
    <3>1. WorldSize = layout.dp * layout.tp /\ \A j : Peer(r, j)[1] = j \div layout.tp
      BY <2>2 DEF WorldSize, Peer
    <3> QED BY <2>2, <3>1 DEF SizesAt, ChunkSizes, CountAt
  <2>3. CASE ~ layout.sp
    <3>1. WorldSize = layout.dp /\ \A j : Peer(r, j)[1] = j
      BY <2>1, <2>3 DEF WorldSize, Peer
    <3>2. layout.dp * 1 - 1 = layout.dp - 1
      BY <2>1
    <3>3. \A j \in 0..(layout.dp - 1) : j \div 1 = j
      BY <2>1
    <3> QED BY <2>3, <3>1, <3>2, <3>3 DEF SizesAt, ChunkSizes, CountAt
  <2> QED BY <2>1, <2>2, <2>3
<1>6. \A q \in CommGroup(r) : SizesAt(f, q) = SizesAt(f, r)
  BY Peers DEF SizesAt
<1> QED BY <1>2, <1>3, <1>4, <1>5, <1>6

\* The ranges of the sizes: where the j-th begins and whose a row is.
Owner(s, n, i) == CHOOSE j \in 0..(n - 1) : Offset(s, j) < i /\ i <= Offset(s, j) + s[j]

LEMMA Starts ==
  ASSUME NEW n \in Nat, NEW s \in [0..(n - 1) -> Nat]
  PROVE  /\ FirstSums(s, n, [j \in 0..n |-> Offset(s, j)])
         /\ \A j \in 0..n : Offset(s, j) \in Nat
         /\ \A j \in 0..(n - 1) : Offset(s, j) + s[j] <= Offset(s, n)
<1> DEFINE b == [j \in 0..n |-> Offset(s, j)]
<1>1. FirstSums(s, n, b)
  <2>1. b = [j \in 0..n |-> SumOver(s, 0..(j - 1))]
    BY SumIsSumOver DEF Offset
  <2> QED BY <2>1, FirstSumsOf
<1>2. \A j \in 0..n : Offset(s, j) \in Nat
  BY <1>1 DEF FirstSums
<1>3. ASSUME NEW j \in 0..(n - 1) PROVE Offset(s, j) + s[j] <= Offset(s, n)
  <2>1. j \in 0..n /\ j + 1 \in 0..n /\ n \in 0..n /\ j + 1 <= n
    OBVIOUS
  <2>2. b[j + 1] = b[j] + s[j]
    BY <1>1 DEF FirstSums
  <2>3. b[j + 1] <= b[n]
    <3> HIDE DEF b
    <3> QED BY <1>1, <2>1, SumsGrow
  <2> QED BY <2>1, <2>2, <2>3
<1> QED BY <1>1, <1>2, <1>3

LEMMA Owners ==
  ASSUME NEW n \in Nat, NEW s \in [0..(n - 1) -> Nat], NEW i \in 1..Offset(s, n)
  PROVE  /\ Owner(s, n, i) \in 0..(n - 1)
         /\ Offset(s, Owner(s, n, i)) < i /\ i <= Offset(s, Owner(s, n, i)) + s[Owner(s, n, i)]
         /\ \A j \in 0..(n - 1) :
                Offset(s, j) < i /\ i <= Offset(s, j) + s[j] => Owner(s, n, i) = j
<1> DEFINE b == [j \in 0..n |-> Offset(s, j)]
           k == i - 1
<1>0. FirstSums(s, n, b) /\ \A j \in 0..n : b[j] = Offset(s, j) /\ b[j] \in Nat
  BY Starts
<1>1. k \in Nat /\ i = k + 1 /\ i \in Nat /\ k < b[n]
  BY <1>0
<1>2. \A j \in 0..(n - 1) : j \in 0..n /\ s[j] \in Nat
  OBVIOUS
<1> HIDE DEF b, k
<1>3. PICK j \in 0..(n - 1) : b[j] <= k /\ k < b[j] + s[j]
  BY <1>0, <1>1, SumsCover
<1>4. Offset(s, j) < i /\ i <= Offset(s, j) + s[j]
  BY <1>0, <1>1, <1>2, <1>3
<1>5. /\ Owner(s, n, i) \in 0..(n - 1)
      /\ Offset(s, Owner(s, n, i)) < i /\ i <= Offset(s, Owner(s, n, i)) + s[Owner(s, n, i)]
  BY <1>4 DEF Owner
<1>6. ASSUME NEW m \in 0..(n - 1), Offset(s, m) < i, i <= Offset(s, m) + s[m],
             NEW o \in 0..(n - 1), Offset(s, o) < i, i <= Offset(s, o) + s[o]
      PROVE  m = o
  <2>1. b[m] <= k /\ k < b[m] + s[m] /\ b[o] <= k /\ k < b[o] + s[o]
    BY <1>0, <1>1, <1>2, <1>6
  <2> QED BY <1>0, <1>1, <2>1, SumsApart
<1> QED BY <1>5, <1>6

\* Equal sizes lie at equal distances.
LEMMA EqualStarts ==
  ASSUME NEW n \in Nat, NEW c \in Nat
  PROVE  Offset([j \in 0..(n - 1) |-> c], n) = c * n
<1> DEFINE s == [j \in 0..(n - 1) |-> c]
           b == [j \in 0..n |-> Offset(s, j)]
           T == {m \in Nat : m <= n => b[m] = c * m}
<1>1. s \in [0..(n - 1) -> Nat] /\ \A j \in 0..(n - 1) : s[j] = c
  OBVIOUS
<1> HIDE DEF s
<1>2. FirstSums(s, n, b) /\ \A j \in 0..n : b[j] = Offset(s, j) /\ b[j] \in Nat
  BY <1>1, Starts
<1> HIDE DEF b
<1>3. 0 \in T
  <2>1. b[0] = 0 /\ c * 0 = 0
    BY <1>2 DEF FirstSums
  <2> QED BY <2>1
<1>4. ASSUME NEW m \in T PROVE m + 1 \in T
  <2> SUFFICES ASSUME m + 1 <= n PROVE b[m + 1] = c * (m + 1)
    OBVIOUS
  <2>1. m \in 0..(n - 1) /\ b[m] = c * m
    OBVIOUS
  <2>2. b[m + 1] = b[m] + s[m] /\ s[m] = c
    BY <1>1, <1>2, <2>1 DEF FirstSums
  <2>3. c * (m + 1) = c * m + c
    BY <2>1
  <2> QED BY <2>1, <2>2, <2>3
<1>5. T = Nat
  <2>1. T \subseteq Nat
    OBVIOUS
  <2> HIDE DEF T
  <2> QED BY <1>3, <1>4, <2>1, SetInduction
<1>6. n \in 0..n /\ n \in T
  BY <1>5
<1> QED BY <1>2, <1>6 DEF s

\* The rows of the whole group, one rank's behind the other's.
AllRows(f, r) ==
    LET s == SizesAt(f, r)
        Sender(i) == Owner(s, WorldSize, i)
    IN  [i \in 1..Offset(s, WorldSize) |->
            TokenAt(f, Peer(r, Sender(i)), i - Offset(s, Sender(i)))]

\* The rows of rank r are the ones behind its start.
LEMMA OwnRows ==
  ASSUME LayoutRight, NEW f \in 1..Forwards, NEW r \in Members, NEW i \in 1..CountAt(f, r)
  PROVE  LET s == SizesAt(f, r)
         IN  /\ Offset(s, Index(r)) \in Nat
             /\ Offset(s, Index(r)) + i \in 1..Offset(s, WorldSize)
             /\ AllRows(f, r)[Offset(s, Index(r)) + i] = TokenAt(f, r, i)
<1> DEFINE s == SizesAt(f, r)
           a == Offset(s, Index(r))
           n == WorldSize
<1>1. /\ n \in Nat /\ Index(r) \in 0..(n - 1) /\ Peer(r, Index(r)) = r
      /\ Index(r) \in 0..n
  BY Peers
<1>2. s \in [0..(n - 1) -> Nat] /\ s[Index(r)] = CountAt(f, r) /\ CountAt(f, r) \in Nat
  BY SizesTyped, CountsTyped
<1>3. AllRows(f, r) = [k \in 1..Offset(s, n) |->
                         TokenAt(f, Peer(r, Owner(s, n, k)), k - Offset(s, Owner(s, n, k)))]
  BY DEF AllRows
<1> HIDE DEF n, s
<1>4. a \in Nat /\ a + s[Index(r)] <= Offset(s, n) /\ Offset(s, n) \in Nat
  <2>1. (\A j \in 0..n : Offset(s, j) \in Nat)
        /\ \A j \in 0..(n - 1) : Offset(s, j) + s[j] <= Offset(s, n)
    BY <1>1, <1>2, Starts
  <2>2. n \in 0..n
    BY <1>1
  <2> QED BY <1>1, <2>1, <2>2
<1>5. a + i \in 1..Offset(s, n) /\ a < a + i /\ a + i <= a + s[Index(r)]
  BY <1>2, <1>4
<1>6. Owner(s, n, a + i) = Index(r)
  BY <1>1, <1>2, <1>5, Owners
<1>7. (a + i) - Offset(s, Index(r)) = i
  BY <1>4
<1>8. AllRows(f, r)[a + i] = TokenAt(f, r, i)
  BY <1>1, <1>3, <1>5, <1>6, <1>7
<1> QED BY <1>4, <1>5, <1>8 DEF s, n

\* Everyone in the group puts the same rows together.
LEMMA SameRows ==
  ASSUME LayoutRight, NEW f \in 1..Forwards, NEW r \in Members, NEW q \in CommGroup(r)
  PROVE  AllRows(f, q) = AllRows(f, r)
<1>1. SizesAt(f, q) = SizesAt(f, r) /\ \A j : Peer(q, j) = Peer(r, j)
  BY SizesTyped, Peers
<1> QED BY <1>1 DEF AllRows

-----------------------------------------------------------------------------
(* The naive dispatch: what holds of a rank at each stage.                   *)

\* Named columns of the same rows: a rank sends its own tokens, and gets the group's.
Sheet(names, rows) == [c \in DOMAIN names |-> [what |-> names[c], rows |-> rows]]
OwnTokens(f, r) == [i \in 1..CountAt(f, r) |-> TokenAt(f, r, i)]
RoutingNames == IF layout.path = "modular" THEN << "weights", "ids" >> ELSE << "logits" >>
ScaleNames == IF layout.scale = "rows" THEN << "scale" >> ELSE << >>
LoraNames == IF layout.lora THEN << "lora" >> ELSE << >>
TensorNames == << "hidden" >> \o RoutingNames \o ScaleNames \o LoraNames
Columns(f, r) == Sheet(TensorNames, OwnTokens(f, r))

GotFor(g, f, r) ==
    g = [hidden |-> [what |-> "hidden", rows |-> AllRows(f, r)],
         routing |-> Sheet(RoutingNames, AllRows(f, r)),
         lora |-> Sheet(LoraNames, AllRows(f, r)),
         scales |-> Sheet(ScaleNames, AllRows(f, r))]

\* Rows with the ranks that have answered.
Answer(t, S) == [token |-> t, counts |-> [m \in Members |-> IF m \in S THEN 1 ELSE 0]]
Answered(tokens, S) == [i \in DOMAIN tokens |-> Answer(tokens[i], S)]

RankRight(r) ==
    LET f == forward[r]
    IN  /\ f \in 1..Forwards
        /\ stage[r] \in {"prepare", "dispatch", "experts", "combine", "reduce", "home"}
        /\ stage[r] = "dispatch" => sent[r] = Columns(f, r)
        /\ stage[r] = "experts" => GotFor(got[r], f, r)
        /\ stage[r] = "combine" => results[r] = Answered(AllRows(f, r), {r})
        /\ stage[r] = "reduce" => results[r] = Answered(OwnTokens(f, r), CommGroup(r))
        /\ stage[r] = "home" => results[r] = Answered(OwnTokens(f, r), Members)

\* The collectives that a rank has been through, in its group of experts and in the
\* group that reduces: the ranks of a group have been through the same number.
Exchanges(r) ==
    2 * forward[r] + (IF stage[r] \in {"prepare", "dispatch"} THEN 0
                      ELSE IF stage[r] \in {"experts", "combine"} THEN 1 ELSE 2)
Reductions(r) == forward[r] + (IF stage[r] = "home" THEN 1 ELSE 0)
InStep ==
    \A r \in Members :
        /\ \A q \in CommGroup(r) : Exchanges(q) = Exchanges(r)
        /\ \A q \in ReduceGroup(r) : Reductions(q) = Reductions(r)

RanksTyped ==
    /\ forward \in [Members -> Nat] /\ DOMAIN stage = Members
    /\ DOMAIN sent = Members /\ DOMAIN got = Members /\ DOMAIN results = Members
RanksRight == \A r \in Members : RankRight(r)
DispatchInv == LayoutRight /\ RanksTyped /\ RanksRight /\ InStep

\* Ranks that exchange at one stage are in the same layer.
LEMMA OneLayer ==
  ASSUME DispatchInv, NEW r \in Members
  PROVE  /\ \A q \in CommGroup(r) : stage[q] = stage[r] => forward[q] = forward[r]
         /\ \A q \in ReduceGroup(r) : stage[q] = stage[r] => forward[q] = forward[r]
<1>1. ASSUME NEW q \in CommGroup(r), stage[q] = stage[r] PROVE forward[q] = forward[r]
  <2>1. q \in Members /\ Exchanges(q) = Exchanges(r)
    BY Peers DEF DispatchInv, InStep
  <2>2. forward[q] \in Nat /\ forward[r] \in Nat
    BY <2>1 DEF DispatchInv, RanksTyped
  <2> QED BY <1>1, <2>1, <2>2 DEF Exchanges
<1>2. ASSUME NEW q \in ReduceGroup(r), stage[q] = stage[r] PROVE forward[q] = forward[r]
  <2>1. q \in Members /\ Reductions(q) = Reductions(r)
    BY Reducers DEF DispatchInv, InStep
  <2>2. forward[q] \in Nat /\ forward[r] \in Nat
    BY <2>1 DEF DispatchInv, RanksTyped
  <2> QED BY <1>2, <2>1, <2>2 DEF Reductions
<1> QED BY <1>1, <1>2

\* What a step does not change while the layout and the batches stay.
LEMMA Fixed ==
  ASSUME layout' = layout, batches' = batches
  PROVE  /\ LayoutRight' <=> LayoutRight
         /\ Members' = Members
         /\ \A r : CommGroup(r)' = CommGroup(r) /\ ReduceGroup(r)' = ReduceGroup(r)
         /\ \A f, r : AllRows(f, r)' = AllRows(f, r) /\ OwnTokens(f, r)' = OwnTokens(f, r)
         /\ \A f, r : Columns(f, r)' = Columns(f, r)
         /\ \A g, f, r : GotFor(g, f, r)' <=> GotFor(g, f, r)
         /\ \A t, S : Answered(t, S)' = Answered(t, S)
<1>1. LayoutRight' <=> LayoutRight
  BY DEF LayoutRight
<1>2. Members' = Members
  BY DEF Members
<1>3. \A r : CommGroup(r)' = CommGroup(r) /\ ReduceGroup(r)' = ReduceGroup(r)
  BY <1>2 DEF CommGroup, ReduceGroup
<1>4. \A f, r : CountAt(f, r)' = CountAt(f, r)
  BY DEF CountAt, Cut
<1>5. \A f, r, i : TokenAt(f, r, i)' = TokenAt(f, r, i)
  BY DEF TokenAt
<1>6. WorldSize' = WorldSize /\ \A r, j : Peer(r, j)' = Peer(r, j)
  BY DEF WorldSize, Peer
<1>7. \A f, r : SizesAt(f, r)' = SizesAt(f, r)
  BY <1>4, <1>6 DEF SizesAt
<1>8. \A f, r : AllRows(f, r)' = AllRows(f, r)
  BY <1>5, <1>6, <1>7 DEF AllRows
<1>9. \A f, r : OwnTokens(f, r)' = OwnTokens(f, r)
  BY <1>4, <1>5 DEF OwnTokens
<1>10. TensorNames' = TensorNames /\ RoutingNames' = RoutingNames /\ ScaleNames' = ScaleNames
       /\ LoraNames' = LoraNames
  BY DEF TensorNames, RoutingNames, ScaleNames, LoraNames
<1>11. \A f, r : Columns(f, r)' = Columns(f, r)
  BY <1>9, <1>10 DEF Columns, Sheet
<1>12. \A g, f, r : GotFor(g, f, r)' <=> GotFor(g, f, r)
  BY <1>8, <1>10 DEF GotFor, Sheet
<1>13. \A t, S : Answered(t, S)' = Answered(t, S)
  BY <1>2 DEF Answered, Answer
<1> QED BY <1>1, <1>2, <1>3, <1>8, <1>9, <1>11, <1>12, <1>13

-----------------------------------------------------------------------------
(* The naive dispatch: the columns.                                          *)

\* The names of columns are among the words.
Words == {"hidden", "weights", "ids", "logits", "scale", "lora"}

LEMMA Singles ==
  ASSUME NEW S, NEW v \in S, NEW w \in S
  PROVE  << w >> \in Seq(S) /\ << v, w >> \in Seq(S) /\ << >> \in Seq(S)
OBVIOUS

LEMMA NamesTyped ==
  /\ << "hidden" >> \in Seq(Words) /\ RoutingNames \in Seq(Words)
  /\ ScaleNames \in Seq(Words) /\ LoraNames \in Seq(Words)
<1>1. /\ "hidden" \in Words /\ "weights" \in Words /\ "ids" \in Words /\ "logits" \in Words
      /\ "scale" \in Words /\ "lora" \in Words
  BY DEF Words
<1>2. << "hidden" >> \in Seq(Words)
  BY <1>1, Singles
<1>3. RoutingNames \in Seq(Words)
  BY <1>1, Singles DEF RoutingNames
<1>4. ScaleNames \in Seq(Words)
  BY <1>1, Singles DEF ScaleNames
<1>5. LoraNames \in Seq(Words)
  BY <1>1, Singles DEF LoraNames
<1> QED BY <1>2, <1>3, <1>4, <1>5

\* Columns are named one by one.
LEMMA SheetTyped ==
  ASSUME NEW names \in Seq(Words), NEW X
  PROVE  /\ Sheet(names, X) \in Seq([what : Words, rows : {X}])
         /\ Len(Sheet(names, X)) = Len(names)
         /\ \A c \in 1..Len(names) : Sheet(names, X)[c] = [what |-> names[c], rows |-> X]
<1> DEFINE n == Len(names)
<1>1. n \in Nat /\ DOMAIN names = 1..n /\ \A c \in 1..n : names[c] \in Words
  OBVIOUS
<1>2. Sheet(names, X) = [c \in 1..n |-> [what |-> names[c], rows |-> X]]
  BY <1>1 DEF Sheet
<1> HIDE DEF n
<1> QED BY <1>1, <1>2 DEF n

LEMMA SheetConcat ==
  ASSUME NEW a \in Seq(Words), NEW b \in Seq(Words), NEW X
  PROVE  Sheet(a \o b, X) = Sheet(a, X) \o Sheet(b, X)
<1> DEFINE C == [what : Words, rows : {X}]
           s == Sheet(a \o b, X)
           t == Sheet(a, X) \o Sheet(b, X)
<1>1. /\ a \o b \in Seq(Words) /\ Len(a \o b) = Len(a) + Len(b)
      /\ \A i \in 1..(Len(a) + Len(b)) :
            (a \o b)[i] = IF i <= Len(a) THEN a[i] ELSE b[i - Len(a)]
  BY ConcatProperties
<1>2. s \in Seq(C) /\ Len(s) = Len(a) + Len(b)
      /\ \A i \in 1..(Len(a) + Len(b)) : s[i] = [what |-> (a \o b)[i], rows |-> X]
  <2> DEFINE ab == a \o b
  <2>1. ab \in Seq(Words) /\ Len(ab) = Len(a) + Len(b)
    BY <1>1
  <2> HIDE DEF ab
  <2>2. /\ Sheet(ab, X) \in Seq(C) /\ Len(Sheet(ab, X)) = Len(ab)
        /\ \A c \in 1..Len(ab) : Sheet(ab, X)[c] = [what |-> ab[c], rows |-> X]
    BY <2>1, SheetTyped
  <2> QED BY <2>1, <2>2 DEF ab
<1>3. /\ Sheet(a, X) \in Seq(C) /\ Len(Sheet(a, X)) = Len(a)
      /\ \A i \in 1..Len(a) : Sheet(a, X)[i] = [what |-> a[i], rows |-> X]
  BY SheetTyped
<1>4. /\ Sheet(b, X) \in Seq(C) /\ Len(Sheet(b, X)) = Len(b)
      /\ \A i \in 1..Len(b) : Sheet(b, X)[i] = [what |-> b[i], rows |-> X]
  BY SheetTyped
<1> HIDE DEF C
<1>5. /\ t \in Seq(C) /\ Len(t) = Len(a) + Len(b)
      /\ \A i \in 1..(Len(a) + Len(b)) :
            t[i] = IF i <= Len(a) THEN Sheet(a, X)[i] ELSE Sheet(b, X)[i - Len(a)]
  <2> DEFINE A == Sheet(a, X)
             B == Sheet(b, X)
  <2>1. A \in Seq(C) /\ B \in Seq(C) /\ Len(A) = Len(a) /\ Len(B) = Len(b)
    BY <1>3, <1>4
  <2> HIDE DEF A, B
  <2>2. /\ A \o B \in Seq(C) /\ Len(A \o B) = Len(A) + Len(B)
        /\ \A i \in 1..(Len(A) + Len(B)) :
              (A \o B)[i] = IF i <= Len(A) THEN A[i] ELSE B[i - Len(A)]
    BY <2>1, ConcatProperties
  <2> QED BY <2>1, <2>2 DEF A, B
<1>6. Len(a) \in Nat /\ Len(b) \in Nat
  OBVIOUS
<1>7. ASSUME NEW i \in 1..(Len(a) + Len(b)) PROVE s[i] = t[i]
  <2>1. CASE i <= Len(a)
    <3>1. i \in 1..Len(a)
      BY <1>6, <2>1
    <3> QED BY <1>1, <1>2, <1>3, <1>5, <2>1, <3>1
  <2>2. CASE ~ (i <= Len(a))
    <3>1. i - Len(a) \in 1..Len(b)
      BY <1>6, <2>2
    <3> QED BY <1>1, <1>2, <1>4, <1>5, <2>2, <3>1
  <2> QED BY <2>1, <2>2
<1> HIDE DEF s, t
<1>8. s = t
  BY <1>2, <1>5, <1>7, SeqEqual
<1> QED BY <1>8 DEF s, t

\* The columns, in the order in which they are sent.
LEMMA SheetOfNames ==
  ASSUME NEW X
  PROVE  Sheet(TensorNames, X) = << [what |-> "hidden", rows |-> X] >> \o Sheet(RoutingNames, X)
                             \o Sheet(ScaleNames, X) \o Sheet(LoraNames, X)
<1> DEFINE a == << "hidden" >>
           b == RoutingNames
           c == ScaleNames
           d == LoraNames
<1>1. a \in Seq(Words) /\ b \in Seq(Words) /\ c \in Seq(Words) /\ d \in Seq(Words)
  BY NamesTyped
<1>2. Sheet(a, X) = << [what |-> "hidden", rows |-> X] >>
  BY DEF Sheet
<1> HIDE DEF a, b, c, d
<1> DEFINE ab == a \o b
           abc == ab \o c
<1>3. ab \in Seq(Words) /\ Sheet(ab, X) = Sheet(a, X) \o Sheet(b, X)
  BY <1>1, SheetConcat
<1> HIDE DEF ab
<1>4. abc \in Seq(Words) /\ Sheet(abc, X) = Sheet(ab, X) \o Sheet(c, X)
  <2>1. abc \in Seq(Words)
    BY <1>1, <1>3
  <2>2. Sheet(ab \o c, X) = Sheet(ab, X) \o Sheet(c, X)
    BY <1>1, <1>3, SheetConcat
  <2> QED BY <2>1, <2>2
<1> HIDE DEF abc
<1>5. Sheet(abc \o d, X) = Sheet(abc, X) \o Sheet(d, X)
  BY <1>1, <1>4, SheetConcat
<1>6. TensorNames = abc \o d
  BY DEF a, b, c, d, ab, abc, TensorNames
<1> QED BY <1>2, <1>3, <1>4, <1>5, <1>6 DEF b, c, d

\* A rank sends its own tokens under each of the names.
LEMMA TensorsNamed ==
  ASSUME NEW r
  PROVE  /\ Tensors(r) = Columns(forward[r], r)
         /\ Len(Routing(r)) = Len(RoutingNames) /\ Len(Scales(r)) = Len(ScaleNames)
<1> DEFINE T == Tokens(r)
<1>1. T = OwnTokens(forward[r], r)
  BY DEF Tokens, OwnTokens, Count, CountAt, Token, TokenAt
<1>2. Routing(r) = Sheet(RoutingNames, T)
  BY DEF Routing, RoutingNames, Tensor, Sheet
<1>3. Scales(r) = Sheet(ScaleNames, T)
  BY DEF Scales, ScaleNames, Tensor, Sheet
<1>4. LoraIds(r) = Sheet(LoraNames, T)
  BY DEF LoraIds, LoraNames, Tensor, Sheet
<1>5. Tensors(r) = << [what |-> "hidden", rows |-> T] >> \o Routing(r) \o Scales(r) \o LoraIds(r)
  BY DEF Tensors, Tensor
<1> HIDE DEF T
<1>6. Tensors(r) = Sheet(TensorNames, T)
  BY <1>2, <1>3, <1>4, <1>5, SheetOfNames
<1>7. Len(Routing(r)) = Len(RoutingNames) /\ Len(Scales(r)) = Len(ScaleNames)
  BY <1>2, <1>3, NamesTyped, SheetTyped
<1> QED BY <1>1, <1>6, <1>7 DEF Columns

\* A sequence put together from parts, taken apart again.
Joined(s, h, R, S, L) == s = << h >> \o R \o S \o L

LEMMA Parts ==
  ASSUME NEW C, NEW h \in C, NEW R \in Seq(C), NEW S \in Seq(C), NEW L \in Seq(C),
         NEW s, Joined(s, h, R, S, L)
  PROVE  /\ s[1] = h /\ SubSeq(s, 2, (2 + Len(R)) - 1) = R
         /\ SubSeq(s, 2 + Len(R), Len(s)) = S \o L
<1> DEFINE a == << h >>
           b == a \o R
           c == b \o S
           n == Len(R)
           m == Len(S)
           k == Len(L)
<1>1. a \in Seq(C) /\ Len(a) = 1 /\ a[1] = h /\ n \in Nat /\ m \in Nat /\ k \in Nat
  OBVIOUS
<1> HIDE DEF a
<1>2. /\ b \in Seq(C) /\ Len(b) = 1 + n
      /\ \A i \in 1..(1 + n) : b[i] = IF i <= 1 THEN a[i] ELSE R[i - 1]
  <2>1. /\ b \in Seq(C) /\ Len(b) = Len(a) + Len(R)
        /\ \A i \in 1..(Len(a) + Len(R)) : b[i] = IF i <= Len(a) THEN a[i] ELSE R[i - Len(a)]
    BY <1>1, ConcatProperties
  <2> QED BY <1>1, <2>1
<1> HIDE DEF b
<1>3. /\ c \in Seq(C) /\ Len(c) = 1 + n + m
      /\ \A i \in 1..(1 + n + m) : c[i] = IF i <= 1 + n THEN b[i] ELSE S[i - (1 + n)]
  <2>1. /\ c \in Seq(C) /\ Len(c) = Len(b) + Len(S)
        /\ \A i \in 1..(Len(b) + Len(S)) : c[i] = IF i <= Len(b) THEN b[i] ELSE S[i - Len(b)]
    BY <1>2, ConcatProperties
  <2> QED BY <1>2, <2>1
<1> HIDE DEF c
<1>4. /\ s \in Seq(C) /\ Len(s) = 1 + n + m + k
      /\ \A i \in 1..(1 + n + m + k) :
            s[i] = IF i <= 1 + n + m THEN c[i] ELSE L[i - (1 + n + m)]
  <2>0. s = c \o L
    BY DEF a, b, c, Joined
  <2>1. /\ s \in Seq(C) /\ Len(s) = Len(c) + Len(L)
        /\ \A i \in 1..(Len(c) + Len(L)) : s[i] = IF i <= Len(c) THEN c[i] ELSE L[i - Len(c)]
    BY <1>1, <1>3, <2>0, ConcatProperties
  <2> QED BY <1>3, <2>1
<1> DEFINE e == S \o L
<1>5. /\ e \in Seq(C) /\ Len(e) = m + k
      /\ \A i \in 1..(m + k) : e[i] = IF i <= m THEN S[i] ELSE L[i - m]
  BY ConcatProperties
<1> HIDE DEF e
<1> DEFINE u == SubSeq(s, 2, (2 + n) - 1)
           v == SubSeq(s, 2 + n, Len(s))
<1> HIDE DEF n, m, k
<1>6. s[1] = h
  <2>1. 1 \in 1..(1 + n + m + k) /\ 1 \in 1..(1 + n + m) /\ 1 \in 1..(1 + n) /\ 1 <= 1 + n + m
        /\ 1 <= 1 + n /\ 1 <= 1
    BY <1>1
  <2>2. s[1] = c[1]
    BY <1>4, <2>1
  <2>3. c[1] = b[1]
    BY <1>3, <2>1
  <2> QED BY <1>1, <1>2, <2>1, <2>2, <2>3
<1>7. \A i \in 2..((2 + n) - 1) : s[i] = R[i - 1]
  <2> TAKE i \in 2..((2 + n) - 1)
  <2>1. /\ i \in 1..(1 + n + m + k) /\ i \in 1..(1 + n + m) /\ i \in 1..(1 + n)
        /\ i <= 1 + n + m /\ i <= 1 + n /\ ~ (i <= 1)
    BY <1>1
  <2>2. s[i] = c[i]
    BY <1>4, <2>1
  <2>3. c[i] = b[i]
    BY <1>3, <2>1
  <2> QED BY <1>2, <2>1, <2>2, <2>3
<1>8. ASSUME NEW i \in (2 + n)..Len(s)
      PROVE  s[i] = e[i - (1 + n)]
  <2>1. i \in 1..(1 + n + m + k) /\ i - (1 + n) \in 1..(m + k) /\ ~ (i <= 1 + n)
    BY <1>1, <1>4
  <2>2. CASE i <= 1 + n + m
    <3>1. i \in 1..(1 + n + m) /\ i - (1 + n) <= m
      BY <1>1, <2>1, <2>2
    <3>2. s[i] = c[i] /\ c[i] = S[i - (1 + n)]
      BY <1>3, <1>4, <2>1, <2>2, <3>1
    <3> QED BY <1>5, <2>1, <3>1, <3>2
  <2>3. CASE ~ (i <= 1 + n + m)
    <3>1. ~ (i - (1 + n) <= m) /\ i - (1 + n + m) = (i - (1 + n)) - m
      BY <1>1, <2>1, <2>3
    <3>2. s[i] = L[i - (1 + n + m)]
      BY <1>4, <2>1, <2>3
    <3> QED BY <1>5, <2>1, <3>1, <3>2
  <2> QED BY <2>2, <2>3
<1>9. \A i \in 1..Len(s) : s[i] \in C
  BY <1>4
<1>10. u = R
  <2>1. \A i \in 2..((2 + n) - 1) : s[i] \in C
    BY <1>1, <1>4, <1>9
  <2>2. 2 \in Int /\ (2 + n) - 1 \in Int
    BY <1>1
  <2>3. /\ u \in Seq(C) /\ Len(u) = (IF 2 <= (2 + n) - 1 THEN ((2 + n) - 1) - 2 + 1 ELSE 0)
        /\ \A i \in 1..(((2 + n) - 1) - 2 + 1) : u[i] = s[2 + i - 1]
    BY <2>1, <2>2, SubSeqProperties
  <2>4. Len(u) = n /\ \A i \in 1..n : u[i] = s[i + 1]
    BY <1>1, <2>3
  <2>5. \A i \in 1..n : u[i] = R[i]
    BY <1>1, <1>7, <2>4
  <2> HIDE DEF u
  <2> QED BY <2>3, <2>4, <2>5, SeqEqual DEF n
<1>11. v = e
  <2>1. \A i \in (2 + n)..Len(s) : s[i] \in C
    BY <1>1, <1>4, <1>9
  <2>2. 2 + n \in Int /\ Len(s) \in Int
    BY <1>1, <1>4
  <2>3. /\ v \in Seq(C) /\ Len(v) = (IF 2 + n <= Len(s) THEN Len(s) - (2 + n) + 1 ELSE 0)
        /\ \A i \in 1..(Len(s) - (2 + n) + 1) : v[i] = s[(2 + n) + i - 1]
    BY <2>1, <2>2, SubSeqProperties
  <2>4. Len(v) = m + k /\ \A i \in 1..(m + k) : v[i] = s[i + (1 + n)]
    BY <1>1, <1>4, <2>3
  <2>5. ASSUME NEW i \in 1..(m + k) PROVE v[i] = e[i]
    <3>1. i + (1 + n) \in (2 + n)..Len(s) /\ (i + (1 + n)) - (1 + n) = i
      BY <1>1, <1>4
    <3> QED BY <1>8, <2>4, <3>1
  <2> HIDE DEF v
  <2> QED BY <1>5, <2>3, <2>4, <2>5, SeqEqual
<1> QED BY <1>6, <1>10, <1>11 DEF e, n

\* Unpacked, every column is taken for what it was sent as.
LEMMA UnpackedNamed ==
  ASSUME NEW r, NEW X
  PROVE  Unpacked(Sheet(TensorNames, X), 2 + Len(Routing(r)))
         = [hidden |-> [what |-> "hidden", rows |-> X], routing |-> Sheet(RoutingNames, X),
            lora |-> Sheet(LoraNames, X), scales |-> Sheet(ScaleNames, X)]
<1> DEFINE C == [what : Words, rows : {X}]
           h == [what |-> "hidden", rows |-> X]
           R == Sheet(RoutingNames, X)
           S == Sheet(ScaleNames, X)
           L == Sheet(LoraNames, X)
           s == << h >> \o R \o S \o L
           extras == SubSeq(s, 2 + Len(R), Len(s))
<1>1. h \in C /\ R \in Seq(C) /\ S \in Seq(C) /\ L \in Seq(C) /\ Len(R) = Len(Routing(r))
  BY NamesTyped, SheetTyped, TensorsNamed
<1>2. /\ layout.lora => L = << [what |-> "lora", rows |-> X] >>
      /\ ~ layout.lora => L = << >>
  BY DEF LoraNames, Sheet
<1>3. [what |-> "lora", rows |-> X] \in C
  BY DEF Words
<1>4. Sheet(TensorNames, X) = s
  BY SheetOfNames
<1>5. Unpacked(s, 2 + Len(R)) = [hidden |-> s[1], routing |-> SubSeq(s, 2, (2 + Len(R)) - 1),
                           lora |-> IF layout.lora THEN << Last(extras) >> ELSE << >>,
                           scales |-> IF layout.lora THEN Front(extras) ELSE extras]
  BY DEF Unpacked
<1> HIDE DEF h, R, S, L, C
<1>6. s[1] = h /\ SubSeq(s, 2, (2 + Len(R)) - 1) = R /\ extras = S \o L
  <2>1. Joined(s, h, R, S, L)
    BY DEF Joined
  <2> HIDE DEF s
  <2>2. s[1] = h /\ SubSeq(s, 2, (2 + Len(R)) - 1) = R /\ SubSeq(s, 2 + Len(R), Len(s)) = S \o L
    <3>1. h \in C /\ R \in Seq(C) /\ S \in Seq(C) /\ L \in Seq(C)
      BY <1>1
    <3> QED BY <2>1, <3>1, Parts
  <2> QED BY <2>2
<1> HIDE DEF s, extras
<1>7. CASE layout.lora
  <2> DEFINE l == [what |-> "lora", rows |-> X]
  <2> HIDE DEF l
  <2>1. L = << l >> /\ l \in C /\ extras = Append(S, l)
    BY <1>1, <1>2, <1>3, <1>6, <1>7, AppendIsConcat DEF l
  <2>2. Len(extras) = Len(S) + 1 /\ extras[Len(S) + 1] = l /\ extras \in Seq(C)
    BY <1>1, <2>1
  <2>3. Last(extras) = l
    BY <2>2 DEF Last
  <2>4. Front(extras) = S
    <3>1. Front(extras) = SubSeq(Append(S, l), 1, Len(S))
      BY <1>1, <2>1, <2>2 DEF Front
    <3> QED BY <1>1, <2>1, <3>1
  <2> QED BY <1>1, <1>4, <1>5, <1>6, <1>7, <2>1, <2>3, <2>4 DEF h, R, S, L
<1>8. CASE ~ layout.lora
  <2>1. L = << >> /\ extras = S
    BY <1>1, <1>2, <1>6, <1>8, ConcatEmptySeq
  <2> QED BY <1>1, <1>4, <1>5, <1>6, <1>8, <2>1 DEF h, R, S, L
<1> QED BY <1>7, <1>8

-----------------------------------------------------------------------------
(* The naive dispatch: the steps.                                            *)

\* The sizes that a rank gets for its own count are those of its group.
LEMMA SizesGot ==
  ASSUME LayoutRight, NEW r \in Members, forward[r] \in 1..Forwards
  PROVE  /\ Count(r) = CountAt(forward[r], r)
         /\ GetSizes(r, Count(r)) = SizesAt(forward[r], r)
<1>1. Count(r) = CountAt(forward[r], r)
  BY DEF Count, CountAt
<1>2. CASE layout.dp = 1
  <2>1. SizesAt(forward[r], r) = [j \in 0..(WorldSize - 1) |-> CountAt(forward[r], r)]
    BY <1>2, SizesTyped
  <2> QED BY <1>1, <1>2, <2>1 DEF GetSizes
<1>3. CASE layout.dp # 1
  BY <1>1, <1>3, SizesTyped DEF GetSizes
<1> QED BY <1>1, <1>2, <1>3

\* What a rank of a group that is ready has to send.
LEMMA PeersReady ==
  ASSUME DispatchInv, NEW r \in Members, \A q \in CommGroup(r) : stage[q] = "dispatch",
         NEW j \in 0..(WorldSize - 1)
  PROVE  /\ Peer(r, j) \in Members /\ CountAt(forward[r], Peer(r, j)) \in Nat
         /\ sent[Peer(r, j)] = Sheet(TensorNames, OwnTokens(forward[r], Peer(r, j)))
<1> DEFINE q == Peer(r, j)
<1>1. LayoutRight /\ forward[r] \in 1..Forwards
  BY DEF DispatchInv, RanksRight, RankRight
<1>2. q \in CommGroup(r) /\ q \in Members /\ r \in CommGroup(r)
  BY <1>1, Peers
<1> HIDE DEF q
<1>3. stage[q] = "dispatch" /\ stage[r] = "dispatch"
  BY <1>2
<1>4. forward[q] = forward[r]
  BY <1>2, <1>3, OneLayer
<1>5. sent[q] = Columns(forward[r], q)
  BY <1>2, <1>3, <1>4 DEF DispatchInv, RanksRight, RankRight
<1>6. CountAt(forward[r], q) \in Nat
  BY <1>1, <1>2, CountsTyped
<1> QED BY <1>2, <1>5, <1>6 DEF Columns, q

\* The gathered columns hold the rows of the group.
LEMMA GatheredRows ==
  ASSUME DispatchInv, NEW r \in Members, \A q \in CommGroup(r) : stage[q] = "dispatch"
  PROVE  [c \in DOMAIN sent[r] |-> Gathered(r, c)] = Sheet(TensorNames, AllRows(forward[r], r))
<1> DEFINE f == forward[r]
           s == SizesAt(f, r)
           w == WorldSize
           X == AllRows(f, r)
<1>1. LayoutRight /\ f \in 1..Forwards
  BY DEF DispatchInv, RanksRight, RankRight
<1>2. GetSizes(r, Count(r)) = s
  BY <1>1, SizesGot
<1>3. s \in [0..(w - 1) -> Nat] /\ \A j \in 0..(w - 1) : s[j] = CountAt(f, Peer(r, j))
  BY <1>1, SizesTyped DEF SizesAt
<1>4. w \in Nat /\ Peer(r, Index(r)) = r /\ Index(r) \in 0..(w - 1)
  BY <1>1, Peers
<1>5. sent[r] = Sheet(TensorNames, OwnTokens(f, r))
  BY <1>4, PeersReady
<1>6. /\ DOMAIN sent[r] = DOMAIN TensorNames
      /\ \A c \in DOMAIN TensorNames : sent[r][c].what = TensorNames[c]
  BY <1>5 DEF Sheet
<1>7. ASSUME NEW c \in DOMAIN TensorNames
      PROVE  Gathered(r, c).what = TensorNames[c] /\ Gathered(r, c).rows = X
             /\ Gathered(r, c) = [what |-> TensorNames[c], rows |-> X]
  <2> DEFINE o(i) == Owner(s, w, i)
             k(i) == i - Offset(s, o(i))
             Row(i) == LET rows == sent[Peer(r, o(i))][c].rows
                       IN  IF k(i) <= Len(rows) THEN rows[k(i)] ELSE Junk
  <2>1. Gathered(r, c) = [what |-> sent[r][c].what, rows |-> [i \in 1..Offset(s, w) |-> Row(i)]]
    BY <1>2 DEF Gathered, Owner
  <2>2. X = [i \in 1..Offset(s, w) |-> TokenAt(f, Peer(r, o(i)), k(i))]
    BY DEF AllRows
  <2>3. ASSUME NEW i \in 1..Offset(s, w)
        PROVE  Row(i) = TokenAt(f, Peer(r, o(i)), k(i))
    <3> DEFINE j == Owner(s, w, i)
               q == Peer(r, j)
               n == CountAt(f, q)
               rows == sent[q][c].rows
               x == i - Offset(s, j)
    <3>1. /\ j \in 0..(w - 1)
          /\ Offset(s, j) < i /\ i <= Offset(s, j) + s[j]
      <4> HIDE DEF s, w
      <4> QED BY <1>3, <1>4, Owners
    <3>2. Offset(s, j) \in Nat /\ i \in Nat
      <4>1. \A m \in 0..w : Offset(s, m) \in Nat
        <5> HIDE DEF s, w
        <5> QED BY <1>3, <1>4, Starts
      <4>2. w \in 0..w /\ j \in 0..w
        BY <1>4, <3>1
      <4>3. Offset(s, w) \in Nat /\ Offset(s, j) \in Nat
        BY <4>1, <4>2
      <4> QED BY <4>3
    <3>3. s[j] = n /\ n \in Nat /\ sent[q] = Sheet(TensorNames, OwnTokens(f, q))
      BY <1>3, <3>1, PeersReady
    <3>4. rows = OwnTokens(f, q)
      BY <3>3 DEF Sheet
    <3> HIDE DEF j, q
    <3>5. Len(rows) = n /\ x \in 1..n
      BY <3>1, <3>2, <3>3, <3>4 DEF OwnTokens
    <3>6. rows[x] = TokenAt(f, q, x) /\ x <= Len(rows)
      BY <3>3, <3>4, <3>5 DEF OwnTokens
    <3> QED BY <3>6 DEF j, q
  <2> HIDE DEF Row, o, k, s, X
  <2>4. [i \in 1..Offset(s, w) |-> Row(i)] = X
    BY <2>2, <2>3
  <2>5. Gathered(r, c) = [what |-> TensorNames[c], rows |-> X]
    BY <1>6, <2>1, <2>4
  <2> QED BY <2>5
<1> HIDE DEF X
<1>8. [c \in DOMAIN sent[r] |-> Gathered(r, c)]
      = [c \in DOMAIN TensorNames |-> [what |-> TensorNames[c], rows |-> X]]
  BY <1>6, <1>7
<1> QED BY <1>8 DEF Sheet, X

\* A rank that a step leaves alone.
LEMMA Untouched ==
  ASSUME DispatchInv, layout' = layout, batches' = batches, NEW q \in Members,
         forward'[q] = forward[q], stage'[q] = stage[q], sent'[q] = sent[q],
         got'[q] = got[q], results'[q] = results[q]
  PROVE  RankRight(q)'
<1>1. RankRight(q)
  BY DEF DispatchInv, RanksRight
<1> QED BY <1>1, Fixed DEF RankRight

\* The counts of exchanges and reductions go on by group.
LEMMA Advance ==
  ASSUME DispatchInv, layout' = layout, batches' = batches, NEW G, NEW H,
         \A q \in Members : Exchanges(q)' = Exchanges(q) + (IF q \in G THEN 1 ELSE 0),
         \A q \in Members : Reductions(q)' = Reductions(q) + (IF q \in H THEN 1 ELSE 0),
         G = {} \/ \E r \in Members : G = CommGroup(r),
         H = {} \/ \E r \in Members : H = ReduceGroup(r)
  PROVE  InStep'
<1>1. LayoutRight /\ InStep
  BY DEF DispatchInv
<1>2. ASSUME NEW x \in Members, NEW q \in CommGroup(x)
      PROVE  Exchanges(q)' = Exchanges(x)'
  <2>1. q \in Members /\ CommGroup(q) = CommGroup(x) /\ x \in CommGroup(x) /\ q \in CommGroup(q)
        /\ Exchanges(q) = Exchanges(x)
    BY <1>1, Peers DEF InStep
  <2>2. q \in G <=> x \in G
    <3>1. CASE G = {}
      BY <3>1
    <3>2. ASSUME NEW r \in Members, G = CommGroup(r) PROVE q \in G <=> x \in G
      <4>1. \A y \in G : CommGroup(y) = G
        BY <1>1, <3>2, Peers
      <4> QED BY <2>1, <4>1
    <3> QED BY <3>1, <3>2
  <2> QED BY <2>1, <2>2
<1>3. ASSUME NEW x \in Members, NEW q \in ReduceGroup(x)
      PROVE  Reductions(q)' = Reductions(x)'
  <2>1. q \in Members /\ ReduceGroup(q) = ReduceGroup(x) /\ x \in ReduceGroup(x)
        /\ q \in ReduceGroup(q) /\ Reductions(q) = Reductions(x)
    BY <1>1, Reducers DEF InStep
  <2>2. q \in H <=> x \in H
    <3>1. CASE H = {}
      BY <3>1
    <3>2. ASSUME NEW r \in Members, H = ReduceGroup(r) PROVE q \in H <=> x \in H
      <4>1. \A y \in H : ReduceGroup(y) = H
        BY <1>1, <3>2, Reducers
      <4> QED BY <2>1, <4>1
    <3> QED BY <3>1, <3>2
  <2> QED BY <2>1, <2>2
<1>4. Members' = Members /\ \A r : CommGroup(r)' = CommGroup(r) /\ ReduceGroup(r)' = ReduceGroup(r)
  BY Fixed
<1> QED BY <1>2, <1>3, <1>4 DEF InStep

\* A rank prepares its tensors, and its count is the one that the sizes say.
LEMMA PrepareKeeps ==
  ASSUME DispatchInv, NEW r \in Members, Prepare(r)
  PROVE  DispatchInv'
<1>1. LayoutRight /\ forward[r] \in 1..Forwards /\ RankRight(r)
  BY DEF DispatchInv, RanksRight, RankRight
<1>2. /\ stage[r] = "prepare" /\ layout' = layout /\ batches' = batches /\ forward' = forward
      /\ got' = got /\ results' = results /\ sent' = [sent EXCEPT ![r] = Tensors(r)]
  BY DEF Prepare
<1>3. GetSizes(r, Count(r))[Index(r)] = Count(r)
  BY <1>1, SizesGot, SizesTyped
<1>4. stage' = [stage EXCEPT ![r] = "dispatch"]
  BY <1>3 DEF Prepare
<1>5. /\ forward \in [Members -> Nat] /\ DOMAIN stage = Members
      /\ DOMAIN sent = Members /\ DOMAIN got = Members /\ DOMAIN results = Members
  BY DEF DispatchInv, RanksTyped
<1>6. stage'[r] = "dispatch" /\ sent'[r] = Tensors(r)
      /\ \A q \in Members : q # r => stage'[q] = stage[q] /\ sent'[q] = sent[q]
  BY <1>2, <1>4, <1>5
<1>7. RankRight(r)'
  <2>1. sent'[r] = Columns(forward[r], r)
    BY <1>6, TensorsNamed
  <2> QED BY <1>1, <1>2, <1>6, <2>1, Fixed DEF RankRight
<1>8. ASSUME NEW q \in Members PROVE RankRight(q)'
  <2>1. CASE q # r
    BY <1>2, <1>6, <2>1, Untouched
  <2> QED BY <1>7, <2>1
<1>9. InStep'
  <2>1. ASSUME NEW q \in Members
        PROVE  Exchanges(q)' = Exchanges(q) + 0 /\ Reductions(q)' = Reductions(q) + 0
    <3>1. forward[q] \in Nat
      BY <1>5
    <3> QED BY <1>2, <1>6, <3>1 DEF Exchanges, Reductions
  <2>2. \A q \in Members : /\ Exchanges(q)' = Exchanges(q) + (IF q \in {} THEN 1 ELSE 0)
                           /\ Reductions(q)' = Reductions(q) + (IF q \in {} THEN 1 ELSE 0)
    BY <2>1
  <2> DEFINE E == {}
  <2>3. /\ \A q \in Members : Exchanges(q)' = Exchanges(q) + (IF q \in E THEN 1 ELSE 0)
        /\ \A q \in Members : Reductions(q)' = Reductions(q) + (IF q \in E THEN 1 ELSE 0)
        /\ E = {}
    BY <2>2
  <2> HIDE DEF E
  <2> QED BY <1>2, <2>3, Advance
<1>10. LayoutRight' /\ Members' = Members
  BY <1>1, <1>2, Fixed
<1>11. RanksTyped'
  BY <1>2, <1>4, <1>5, <1>10 DEF RanksTyped
<1>12. RanksRight'
  BY <1>8, <1>10 DEF RanksRight
<1> QED BY <1>9, <1>10, <1>11, <1>12 DEF DispatchInv

\* A group gathers what its ranks sent.
LEMMA DispatchKeeps ==
  ASSUME DispatchInv, NEW r \in Members, Dispatch(r)
  PROVE  DispatchInv'
<1> DEFINE G == CommGroup(r)
<1>1. LayoutRight /\ \A q \in G : q \in Members /\ CommGroup(q) = G
  BY Peers DEF DispatchInv
<1>2. /\ \A q \in G : stage[q] = "dispatch"
      /\ layout' = layout /\ batches' = batches /\ forward' = forward
      /\ sent' = sent /\ results' = results
      /\ stage' = [q \in Members |-> IF q \in G THEN "experts" ELSE stage[q]]
      /\ got' = [q \in Members |->
            IF q \in G
            THEN Unpacked([c \in DOMAIN sent[q] |-> Gathered(q, c)], 2 + Len(Routing(q)))
            ELSE got[q]]
  BY DEF Dispatch
<1>3. /\ forward \in [Members -> Nat] /\ DOMAIN stage = Members
      /\ DOMAIN sent = Members /\ DOMAIN got = Members /\ DOMAIN results = Members
  BY DEF DispatchInv, RanksTyped
<1>4. ASSUME NEW q \in G PROVE stage'[q] = "experts" /\ GotFor(got'[q], forward[q], q)
  <2>1. q \in Members /\ CommGroup(q) = G
    BY <1>1
  <2>2. [c \in DOMAIN sent[q] |-> Gathered(q, c)] = Sheet(TensorNames, AllRows(forward[q], q))
    BY <1>2, <2>1, GatheredRows
  <2>3. got'[q] = Unpacked(Sheet(TensorNames, AllRows(forward[q], q)), 2 + Len(Routing(q)))
    BY <1>2, <2>1, <2>2
  <2>4. stage'[q] = "experts"
    BY <1>2, <2>1
  <2> DEFINE X == AllRows(forward[q], q)
  <2> HIDE DEF X, G
  <2>5. Unpacked(Sheet(TensorNames, X), 2 + Len(Routing(q)))
        = [hidden |-> [what |-> "hidden", rows |-> X], routing |-> Sheet(RoutingNames, X),
           lora |-> Sheet(LoraNames, X), scales |-> Sheet(ScaleNames, X)]
    BY UnpackedNamed
  <2> QED BY <2>3, <2>4, <2>5 DEF GotFor, X
<1>5. ASSUME NEW q \in Members, q \notin G PROVE stage'[q] = stage[q] /\ got'[q] = got[q]
  BY <1>2, <1>5
<1>6. ASSUME NEW q \in Members PROVE RankRight(q)'
  <2>1. CASE q \in G
    <3>1. forward[q] \in 1..Forwards
      BY DEF DispatchInv, RanksRight, RankRight
    <3> QED BY <1>2, <1>4, <2>1, <3>1, Fixed DEF RankRight
  <2>2. CASE q \notin G
    BY <1>2, <1>5, <2>2, Untouched
  <2> QED BY <2>1, <2>2
<1>7. InStep'
  <2>1. ASSUME NEW q \in Members
        PROVE  /\ Exchanges(q)' = Exchanges(q) + (IF q \in G THEN 1 ELSE 0)
               /\ Reductions(q)' = Reductions(q) + (IF q \in {} THEN 1 ELSE 0)
    <3>1. forward[q] \in Nat
      BY <1>3
    <3>2. CASE q \in G
      BY <1>2, <1>4, <3>1, <3>2 DEF Exchanges, Reductions
    <3>3. CASE q \notin G
      BY <1>2, <1>5, <3>1, <3>3 DEF Exchanges, Reductions
    <3> QED BY <3>2, <3>3
  <2> DEFINE E == {}
  <2>2. /\ \A q \in Members : Exchanges(q)' = Exchanges(q) + (IF q \in G THEN 1 ELSE 0)
        /\ \A q \in Members : Reductions(q)' = Reductions(q) + (IF q \in E THEN 1 ELSE 0)
        /\ E = {} /\ \E x \in Members : G = CommGroup(x)
    BY <2>1
  <2> HIDE DEF E, G
  <2> QED BY <1>2, <2>2, Advance
<1>8. LayoutRight' /\ Members' = Members
  BY <1>1, <1>2, Fixed
<1>9. RanksTyped'
  BY <1>2, <1>3, <1>8 DEF RanksTyped
<1>10. RanksRight'
  BY <1>6, <1>8 DEF RanksRight
<1> QED BY <1>7, <1>8, <1>9, <1>10 DEF DispatchInv

\* What the experts use of a row is all that row's.
LEMMA SheetIsOf ==
  ASSUME NEW names, NEW N, \A c \in DOMAIN names : names[c] \in N, NEW X, NEW i \in DOMAIN X
  PROVE  IsOf(X[i], Sheet(names, X), N, i)
BY DEF IsOf, Sheet

LEMMA NamesOf ==
  /\ \A c \in DOMAIN RoutingNames : RoutingNames[c] \in {"weights", "ids", "logits"}
  /\ \A c \in DOMAIN ScaleNames : ScaleNames[c] \in {"scale"}
  /\ \A c \in DOMAIN LoraNames : LoraNames[c] \in {"lora"}
BY DEF RoutingNames, ScaleNames, LoraNames

\* A rank's experts answer every row of the group.
LEMMA ExpertsAnswer ==
  ASSUME DispatchInv, NEW r \in Members, Experts(r)
  PROVE  results'[r] = Answered(AllRows(forward[r], r), {r})
<1> DEFINE X == AllRows(forward[r], r)
           g == got[r]
           Fed(i, t) ==
               /\ IsOf(t, g.routing, {"weights", "ids", "logits"}, i)
               /\ Len(g.scales) = Len(Scales(r)) /\ IsOf(t, g.scales, {"scale"}, i)
               /\ IsOf(t, g.lora, {"lora"}, i)
<1>1. g = [hidden |-> [what |-> "hidden", rows |-> X], routing |-> Sheet(RoutingNames, X),
           lora |-> Sheet(LoraNames, X), scales |-> Sheet(ScaleNames, X)]
  BY DEF Experts, DispatchInv, RanksRight, RankRight, GotFor
<1>2. /\ g.hidden.rows = X /\ g.routing = Sheet(RoutingNames, X)
      /\ g.lora = Sheet(LoraNames, X) /\ g.scales = Sheet(ScaleNames, X)
  BY <1>1
<1>3. results'[r] = [i \in DOMAIN g.hidden.rows |->
            [token |-> IF Fed(i, g.hidden.rows[i]) THEN g.hidden.rows[i] ELSE Junk,
             counts |-> By(r)]]
  BY DEF Experts, DispatchInv, RanksTyped
<1> HIDE DEF X, g
<1>4. Len(g.scales) = Len(Scales(r))
  <2>1. Len(Sheet(ScaleNames, X)) = Len(ScaleNames)
    BY NamesTyped, SheetTyped
  <2>2. Len(Scales(r)) = Len(ScaleNames)
    BY TensorsNamed
  <2> QED BY <1>2, <2>1, <2>2
<1>5. ASSUME NEW i \in DOMAIN X PROVE Fed(i, X[i])
  <2>1. IsOf(X[i], Sheet(RoutingNames, X), {"weights", "ids", "logits"}, i)
    BY NamesOf, SheetIsOf
  <2>2. IsOf(X[i], Sheet(ScaleNames, X), {"scale"}, i)
    BY NamesOf, SheetIsOf
  <2>3. IsOf(X[i], Sheet(LoraNames, X), {"lora"}, i)
    BY NamesOf, SheetIsOf
  <2> QED BY <1>2, <1>4, <2>1, <2>2, <2>3
<1> HIDE DEF Fed
<1>6. results'[r] = [i \in DOMAIN X |-> [token |-> X[i], counts |-> By(r)]]
  BY <1>2, <1>3, <1>5
<1>7. By(r) = [m \in Members |-> IF m \in {r} THEN 1 ELSE 0]
  BY DEF By
<1>8. results'[r] = [i \in DOMAIN X |-> Answer(X[i], {r})]
  BY <1>6, <1>7 DEF Answer
<1> QED BY <1>8 DEF Answered, X

LEMMA ExpertsKeeps ==
  ASSUME DispatchInv, NEW r \in Members, Experts(r)
  PROVE  DispatchInv'
<1>1. LayoutRight /\ forward[r] \in 1..Forwards /\ RankRight(r)
  BY DEF DispatchInv, RanksRight, RankRight
<1>2. /\ stage[r] = "experts" /\ layout' = layout /\ batches' = batches /\ forward' = forward
      /\ got' = got /\ sent' = sent /\ stage' = [stage EXCEPT ![r] = "combine"]
  BY DEF Experts
<1>3. DOMAIN results' = DOMAIN results /\ \A q \in Members : q # r => results'[q] = results[q]
  BY DEF Experts, DispatchInv, RanksTyped
<1>4. results'[r] = Answered(AllRows(forward[r], r), {r})
  BY ExpertsAnswer
<1>5. /\ forward \in [Members -> Nat] /\ DOMAIN stage = Members
      /\ DOMAIN sent = Members /\ DOMAIN got = Members /\ DOMAIN results = Members
  BY DEF DispatchInv, RanksTyped
<1>6. stage'[r] = "combine" /\ \A q \in Members : q # r => stage'[q] = stage[q]
  BY <1>2, <1>5
<1>7. RankRight(r)'
  BY <1>1, <1>2, <1>4, <1>6, Fixed DEF RankRight
<1>8. ASSUME NEW q \in Members PROVE RankRight(q)'
  <2>1. CASE q # r
    BY <1>2, <1>3, <1>6, <2>1, Untouched
  <2> QED BY <1>7, <2>1
<1>9. InStep'
  <2>1. ASSUME NEW q \in Members
        PROVE  Exchanges(q)' = Exchanges(q) + 0 /\ Reductions(q)' = Reductions(q) + 0
    <3>1. forward[q] \in Nat
      BY <1>5
    <3> QED BY <1>2, <1>6, <3>1 DEF Exchanges, Reductions
  <2> DEFINE E == {}
  <2>2. /\ \A q \in Members : Exchanges(q)' = Exchanges(q) + (IF q \in E THEN 1 ELSE 0)
        /\ \A q \in Members : Reductions(q)' = Reductions(q) + (IF q \in E THEN 1 ELSE 0)
        /\ E = {}
    BY <2>1
  <2> HIDE DEF E
  <2> QED BY <1>2, <2>2, Advance
<1>10. LayoutRight' /\ Members' = Members
  BY <1>1, <1>2, Fixed
<1>11. RanksTyped'
  BY <1>2, <1>3, <1>5, <1>10 DEF RanksTyped
<1>12. RanksRight'
  BY <1>8, <1>10 DEF RanksRight
<1> QED BY <1>9, <1>10, <1>11, <1>12 DEF DispatchInv

\* The sets s[x] hold each rank in T once, and no other.
OnceEach(G, s, T) ==
    \A m \in Members : /\ m \in T => \E e \in G : \A x \in G : m \in s[x] <=> x = e
                       /\ m \notin T => \A x \in G : m \notin s[x]

\* Rows of one token add up to that token and, when no two ranks' answers are in two of
\* them, to the answers in any.
LEMMA RowSumRight ==
  ASSUME LayoutRight, NEW G, IsFiniteSet(G), G # {}, NEW i, NEW t, NEW s, NEW T,
         \A x \in G : results[x][i] = Answer(t, s[x]),
         OnceEach(G, s, T)
  PROVE  RowSum(G, i) = Answer(t, T)
<1> DEFINE tokens == {results[q][i].token : q \in G}
           Counts(m) == [q \in G |-> results[q][i].counts[m]]
<1>0. ASSUME NEW x \in G
      PROVE  /\ results[x][i].token = t
             /\ \A m \in Members : results[x][i].counts[m] = IF m \in s[x] THEN 1 ELSE 0
  <2>1. results[x][i] = Answer(t, s[x])
    OBVIOUS
  <2> DEFINE c == [m \in Members |-> IF m \in s[x] THEN 1 ELSE 0]
  <2>2. \A m \in Members : c[m] = IF m \in s[x] THEN 1 ELSE 0
    OBVIOUS
  <2>3. results[x][i] = [token |-> t, counts |-> c]
    BY <2>1 DEF Answer
  <2> HIDE DEF c
  <2>4. results[x][i].token = t /\ results[x][i].counts = c
    BY <2>3
  <2> QED BY <2>2, <2>4
<1>1. tokens = {t}
  <2>1. \A x \in G : results[x][i].token = t
    BY <1>0
  <2>2. PICK e \in G : TRUE
    OBVIOUS
  <2>3. t \in tokens
    BY <2>1, <2>2
  <2>4. \A v \in tokens : v = t
    BY <2>1
  <2> HIDE DEF tokens
  <2> QED BY <2>3, <2>4
<1>2. Cardinality(tokens) = 1 /\ (CHOOSE v \in tokens : TRUE) = t
  BY <1>1, FS_Singleton
<1>3. ASSUME NEW m \in Members PROVE Total(Counts(m), G) = IF m \in T THEN 1 ELSE 0
  <2>1. \A x \in G : Counts(m)[x] = IF m \in s[x] THEN 1 ELSE 0
    BY <1>0
  <2> DEFINE f == Counts(m)
  <2> HIDE DEF f
  <2>2. CASE m \in T
    <3>1. PICK e \in G : \A x \in G : m \in s[x] <=> x = e
      BY <2>2 DEF OnceEach
    <3>2. f[e] = 1 /\ \A x \in G : x # e => f[x] = 0
      BY <2>1, <3>1 DEF f
    <3>3. Total(f, G) = 1
      BY <3>2, SumOne
    <3> QED BY <2>2, <3>3 DEF f
  <2>3. CASE m \notin T
    <3>1. \A x \in G : f[x] = 0
      BY <2>1, <2>3 DEF f, OnceEach
    <3>2. Total(f, G) = 0
      BY <3>1, SumZero
    <3> QED BY <2>3, <3>2 DEF f
  <2> QED BY <2>2, <2>3
<1>4. RowSum(G, i) =
        [token |-> IF Cardinality(tokens) = 1 THEN CHOOSE v \in tokens : TRUE ELSE Junk,
         counts |-> [m \in Members |-> Total(Counts(m), G)]]
  BY DEF RowSum
<1> HIDE DEF tokens, Counts
<1>5. [m \in Members |-> Total(Counts(m), G)] = [m \in Members |-> IF m \in T THEN 1 ELSE 0]
  BY <1>3
<1> QED BY <1>2, <1>4, <1>5 DEF Answer

\* A row with the ranks that have answered it.
LEMMA AnsweredAt ==
  ASSUME NEW X, NEW S, NEW i \in DOMAIN X
  PROVE  Answered(X, S)[i] = Answer(X[i], S)
BY DEF Answered

\* The sizes that a rank gets for the rows that its experts answered.
LEMMA SizesBack ==
  ASSUME LayoutRight, NEW q \in Members, forward[q] \in 1..Forwards,
         results[q] = Answered(AllRows(forward[q], q), {q})
  PROVE  GetSizes(q, Len(results[q]) \div WorldSize) = SizesAt(forward[q], q)
<1> DEFINE f == forward[q]
           s == SizesAt(f, q)
           w == WorldSize
           c == CountAt(f, q)
<1>1. w \in Nat \ {0} /\ c \in Nat /\ s \in [0..(w - 1) -> Nat]
  BY Peers, CountsTyped, SizesTyped
<1>2. CASE layout.dp = 1
  <2>1. s = [j \in 0..(w - 1) |-> c]
    BY <1>2, SizesTyped
  <2>2. Offset(s, w) = c * w
    <3> HIDE DEF c, w
    <3> QED BY <1>1, <2>1, EqualStarts
  <2>3. Len(results[q]) = Offset(s, w)
    <3>1. DOMAIN results[q] = 1..Offset(s, w)
      BY DEF Answered, AllRows
    <3>2. results[q] = [i \in 1..Offset(s, w) |-> results[q][i]]
      BY <3>1 DEF Answered
    <3>3. Offset(s, w) \in Nat
      <4> HIDE DEF c, w
      <4> QED BY <1>1, <2>2
    <3> HIDE DEF s, w
    <3> QED BY <3>2, <3>3
  <2>4. (c * w) \div w = c
    <3> HIDE DEF c, w
    <3>1. c * w = w * c
      BY <1>1
    <3> QED BY <1>1, <3>1, DivExact
  <2> QED BY <1>2, <2>1, <2>2, <2>3, <2>4 DEF GetSizes
<1>3. CASE layout.dp # 1
  <2>1. GetSizes(q, Len(results[q]) \div WorldSize) = ChunkSizes(f)
    BY <1>3 DEF GetSizes
  <2> QED BY <1>3, <2>1, SizesTyped
<1> QED BY <1>2, <1>3

\* A rank's shard of the sum: its own tokens, answered by the whole group.
LEMMA CombineRows ==
  ASSUME DispatchInv, NEW r \in Members, Combine(r), NEW q \in CommGroup(r)
  PROVE  results'[q] = Answered(OwnTokens(forward[q], q), CommGroup(q))
<1> DEFINE G == CommGroup(q)
           f == forward[q]
           s == SizesAt(f, q)
           X == AllRows(f, q)
           a == Offset(s, Index(q))
           c == CountAt(f, q)
<1>1. LayoutRight /\ q \in Members /\ CommGroup(r) = G /\ f \in 1..Forwards /\ q \in G
  BY Peers DEF DispatchInv, RanksRight, RankRight
<1>2. /\ \A x \in G : stage[x] = "combine"
      /\ results'[q] =
            [i \in 1..GetSizes(q, Len(results[q]) \div WorldSize)[Index(q)] |->
                RowSum(G, Offset(GetSizes(q, Len(results[q]) \div WorldSize), Index(q)) + i)]
  BY <1>1 DEF Combine
<1>3. ASSUME NEW x \in G
      PROVE  x \in Members /\ results[x] = Answered(X, {x})
  <2>1. x \in Members /\ stage[x] = "combine" /\ stage[q] = "combine" /\ forward[x] = f
    BY <1>1, <1>2, Peers, OneLayer
  <2>2. AllRows(f, x) = X
    BY <1>1, SameRows
  <2> QED BY <2>1, <2>2 DEF DispatchInv, RanksRight, RankRight
<1>4. GetSizes(q, Len(results[q]) \div WorldSize) = s
  BY <1>1, <1>3, SizesBack
<1>5. s[Index(q)] = c /\ c \in Nat
  BY <1>1, SizesTyped, CountsTyped
<1>6. results'[q] = [i \in 1..c |-> RowSum(G, a + i)]
  BY <1>2, <1>4, <1>5
<1>7. ASSUME NEW i \in 1..c
      PROVE  RowSum(G, a + i) = Answer(TokenAt(f, q, i), G)
  <2>1. a + i \in DOMAIN X /\ X[a + i] = TokenAt(f, q, i)
    BY <1>1, OwnRows DEF AllRows
  <2> DEFINE k == a + i
             t == TokenAt(f, q, i)
             z == [x \in G |-> {x}]
  <2>2. \A x \in G : z[x] = {x}
    OBVIOUS
  <2>3. IsFiniteSet(G) /\ G # {}
    BY <1>1, FewMembers
  <2> HIDE DEF G, X, k, t, z
  <2>4. \A x \in G : results[x][k] = Answer(t, z[x])
    <3> TAKE x \in G
    <3>1. k \in DOMAIN X /\ X[k] = t
      BY <2>1 DEF k, t
    <3>2. results[x][k] = Answer(X[k], {x})
      BY <1>3, <3>1, AnsweredAt
    <3> QED BY <2>2, <3>1, <3>2
  <2>5. OnceEach(G, z, G)
    BY <2>2 DEF OnceEach
  <2>6. RowSum(G, k) = Answer(t, G)
    BY <1>1, <2>3, <2>4, <2>5, RowSumRight
  <2> QED BY <2>6 DEF k, t
<1>8. DOMAIN OwnTokens(f, q) = 1..c /\ \A i \in 1..c : OwnTokens(f, q)[i] = TokenAt(f, q, i)
  BY DEF OwnTokens
<1> HIDE DEF c, a, f, G
<1>9. results'[q] = Answered(OwnTokens(f, q), G)
  BY <1>6, <1>7, <1>8 DEF Answered
<1> QED BY <1>9 DEF f, G

LEMMA CombineKeeps ==
  ASSUME DispatchInv, NEW r \in Members, Combine(r)
  PROVE  DispatchInv'
<1> DEFINE G == CommGroup(r)
<1>1. LayoutRight /\ \A q \in G : q \in Members /\ CommGroup(q) = G
  BY Peers DEF DispatchInv
<1>2. /\ \A q \in G : stage[q] = "combine"
      /\ layout' = layout /\ batches' = batches /\ forward' = forward
      /\ sent' = sent /\ got' = got
      /\ stage' = [q \in Members |-> IF q \in G THEN "reduce" ELSE stage[q]]
      /\ DOMAIN results' = Members
      /\ \A q \in Members : q \notin G => results'[q] = results[q]
  BY DEF Combine
<1>3. /\ forward \in [Members -> Nat] /\ DOMAIN stage = Members
      /\ DOMAIN sent = Members /\ DOMAIN got = Members /\ DOMAIN results = Members
  BY DEF DispatchInv, RanksTyped
<1>4. ASSUME NEW q \in G
      PROVE  /\ stage'[q] = "reduce"
             /\ results'[q] = Answered(OwnTokens(forward[q], q), CommGroup(q))
  BY <1>1, <1>2, CombineRows
<1>5. ASSUME NEW q \in Members, q \notin G PROVE stage'[q] = stage[q]
  BY <1>2, <1>5
<1>6. ASSUME NEW q \in Members PROVE RankRight(q)'
  <2>1. CASE q \in G
    <3>1. forward[q] \in 1..Forwards
      BY DEF DispatchInv, RanksRight, RankRight
    <3> QED BY <1>2, <1>4, <2>1, <3>1, Fixed DEF RankRight
  <2>2. CASE q \notin G
    BY <1>2, <1>5, <2>2, Untouched
  <2> QED BY <2>1, <2>2
<1>7. InStep'
  <2>1. ASSUME NEW q \in Members
        PROVE  /\ Exchanges(q)' = Exchanges(q) + (IF q \in G THEN 1 ELSE 0)
               /\ Reductions(q)' = Reductions(q) + (IF q \in {} THEN 1 ELSE 0)
    <3>1. forward[q] \in Nat
      BY <1>3
    <3>2. CASE q \in G
      BY <1>2, <1>4, <3>1, <3>2 DEF Exchanges, Reductions
    <3>3. CASE q \notin G
      BY <1>2, <1>5, <3>1, <3>3 DEF Exchanges, Reductions
    <3> QED BY <3>2, <3>3
  <2> DEFINE E == {}
  <2>2. /\ \A q \in Members : Exchanges(q)' = Exchanges(q) + (IF q \in G THEN 1 ELSE 0)
        /\ \A q \in Members : Reductions(q)' = Reductions(q) + (IF q \in E THEN 1 ELSE 0)
        /\ E = {} /\ \E x \in Members : G = CommGroup(x)
    BY <2>1
  <2> HIDE DEF E, G
  <2> QED BY <1>2, <2>2, Advance
<1>8. LayoutRight' /\ Members' = Members
  BY <1>1, <1>2, Fixed
<1>9. RanksTyped'
  BY <1>2, <1>3, <1>8 DEF RanksTyped
<1>10. RanksRight'
  BY <1>6, <1>8 DEF RanksRight
<1> QED BY <1>7, <1>8, <1>9, <1>10 DEF DispatchInv

\* The ranks of a reduction add up their own rows, which are of the same tokens.
LEMMA ReduceRows ==
  ASSUME DispatchInv, NEW r \in Members, Reduce(r), NEW q \in ReduceGroup(r)
  PROVE  results'[q] = Answered(OwnTokens(forward[q], q), Members)
<1> DEFINE G == ReduceGroup(q)
           f == forward[q]
           X == OwnTokens(f, q)
<1>1. /\ LayoutRight /\ q \in Members /\ ReduceGroup(r) = G /\ q \in G
      /\ f \in 1..Forwards
  BY Reducers DEF DispatchInv, RanksRight, RankRight
<1>2. /\ \A x \in G : stage[x] = "reduce"
      /\ results'[q] = [i \in DOMAIN results[q] |-> RowSum(G, i)]
  BY <1>1 DEF Reduce
<1>3. ASSUME NEW x \in G
      PROVE  x \in Members /\ results[x] = Answered(X, CommGroup(x))
  <2>1. /\ x \in Members /\ stage[x] = "reduce" /\ stage[q] = "reduce" /\ forward[x] = f
        /\ x[1] = q[1] /\ x[2] = q[2] /\ (layout.sp => x = q)
    BY <1>1, <1>2, Reducers, OneLayer
  <2>2. OwnTokens(f, x) = X
    BY <2>1, LayoutTyped, <1>1 DEF OwnTokens, CountAt, TokenAt
  <2> QED BY <2>1, <2>2 DEF DispatchInv, RanksRight, RankRight
<1>4. DOMAIN results[q] = DOMAIN X
  BY <1>1, <1>3 DEF Answered
<1>5. ASSUME NEW i \in DOMAIN X PROVE RowSum(G, i) = Answer(X[i], Members)
  <2> DEFINE t == X[i]
             z == [x \in G |-> CommGroup(x)]
  <2>1. \A x \in G : z[x] = CommGroup(x)
    OBVIOUS
  <2>2. IsFiniteSet(G) /\ G # {}
    BY <1>1, FewMembers
  <2>3. \A m \in Members : \E e \in G : \A x \in G : m \in CommGroup(x) <=> x = e
    BY <1>1, Reducers
  <2> HIDE DEF G, X, t, z
  <2>4. \A x \in G : results[x][i] = Answer(t, z[x])
    <3> TAKE x \in G
    <3>1. results[x][i] = Answer(X[i], CommGroup(x))
      BY <1>3, AnsweredAt
    <3> QED BY <2>1, <3>1 DEF t
  <2>5. OnceEach(G, z, Members)
    BY <2>1, <2>3 DEF OnceEach
  <2>6. RowSum(G, i) = Answer(t, Members)
    BY <1>1, <2>2, <2>4, <2>5, RowSumRight
  <2> QED BY <2>6 DEF t
<1> HIDE DEF X, G
<1>6. results'[q] = Answered(X, Members)
  BY <1>2, <1>4, <1>5 DEF Answered
<1> QED BY <1>6 DEF X

LEMMA ReduceKeeps ==
  ASSUME DispatchInv, NEW r \in Members, Reduce(r)
  PROVE  DispatchInv'
<1> DEFINE G == ReduceGroup(r)
<1>1. LayoutRight /\ \A q \in G : q \in Members /\ ReduceGroup(q) = G
  BY Reducers DEF DispatchInv
<1>2. /\ \A q \in G : stage[q] = "reduce"
      /\ layout' = layout /\ batches' = batches /\ forward' = forward
      /\ sent' = sent /\ got' = got
      /\ stage' = [q \in Members |-> IF q \in G THEN "home" ELSE stage[q]]
      /\ DOMAIN results' = Members
      /\ \A q \in Members : q \notin G => results'[q] = results[q]
  BY DEF Reduce
<1>3. /\ forward \in [Members -> Nat] /\ DOMAIN stage = Members
      /\ DOMAIN sent = Members /\ DOMAIN got = Members /\ DOMAIN results = Members
  BY DEF DispatchInv, RanksTyped
<1>4. ASSUME NEW q \in G
      PROVE  stage'[q] = "home" /\ results'[q] = Answered(OwnTokens(forward[q], q), Members)
  BY <1>1, <1>2, ReduceRows
<1>5. ASSUME NEW q \in Members, q \notin G PROVE stage'[q] = stage[q]
  BY <1>2, <1>5
<1>6. ASSUME NEW q \in Members PROVE RankRight(q)'
  <2>1. CASE q \in G
    <3>1. forward[q] \in 1..Forwards
      BY DEF DispatchInv, RanksRight, RankRight
    <3> QED BY <1>2, <1>4, <2>1, <3>1, Fixed DEF RankRight
  <2>2. CASE q \notin G
    BY <1>2, <1>5, <2>2, Untouched
  <2> QED BY <2>1, <2>2
<1>7. InStep'
  <2>1. ASSUME NEW q \in Members
        PROVE  /\ Exchanges(q)' = Exchanges(q) + (IF q \in {} THEN 1 ELSE 0)
               /\ Reductions(q)' = Reductions(q) + (IF q \in G THEN 1 ELSE 0)
    <3>1. forward[q] \in Nat
      BY <1>3
    <3>2. CASE q \in G
      BY <1>2, <1>4, <3>1, <3>2 DEF Exchanges, Reductions
    <3>3. CASE q \notin G
      BY <1>2, <1>5, <3>1, <3>3 DEF Exchanges, Reductions
    <3> QED BY <3>2, <3>3
  <2> DEFINE E == {}
  <2>2. /\ \A q \in Members : Exchanges(q)' = Exchanges(q) + (IF q \in E THEN 1 ELSE 0)
        /\ \A q \in Members : Reductions(q)' = Reductions(q) + (IF q \in G THEN 1 ELSE 0)
        /\ E = {} /\ \E x \in Members : G = ReduceGroup(x)
    BY <2>1
  <2> HIDE DEF E, G
  <2> QED BY <1>2, <2>2, Advance
<1>8. LayoutRight' /\ Members' = Members
  BY <1>1, <1>2, Fixed
<1>9. RanksTyped'
  BY <1>2, <1>3, <1>8 DEF RanksTyped
<1>10. RanksRight'
  BY <1>6, <1>8 DEF RanksRight
<1> QED BY <1>7, <1>8, <1>9, <1>10 DEF DispatchInv

\* The next layer starts where the exchanges and reductions of the last one ended.
LEMMA NextLayerKeeps ==
  ASSUME DispatchInv, NEW r \in Members, NextLayer(r)
  PROVE  DispatchInv'
<1>1. LayoutRight /\ forward[r] \in 1..Forwards
  BY DEF DispatchInv, RanksRight, RankRight
<1>2. /\ stage[r] = "home" /\ forward[r] < Forwards /\ layout' = layout /\ batches' = batches
      /\ got' = got /\ sent' = sent /\ results' = results
      /\ forward' = [forward EXCEPT ![r] = @ + 1] /\ stage' = [stage EXCEPT ![r] = "prepare"]
  BY DEF NextLayer
<1>3. /\ forward \in [Members -> Nat] /\ DOMAIN stage = Members
      /\ DOMAIN sent = Members /\ DOMAIN got = Members /\ DOMAIN results = Members
  BY DEF DispatchInv, RanksTyped
<1>4. /\ stage'[r] = "prepare" /\ forward'[r] = forward[r] + 1 /\ forward' \in [Members -> Nat]
      /\ \A q \in Members : q # r => stage'[q] = stage[q] /\ forward'[q] = forward[q]
  BY <1>2, <1>3
<1>5. forward'[r] \in 1..Forwards
  BY <1>1, <1>2, <1>4, DispatchAssumption
<1>6. ASSUME NEW q \in Members PROVE RankRight(q)'
  <2>1. CASE q # r
    BY <1>2, <1>4, <2>1, Untouched
  <2>2. CASE q = r
    BY <1>4, <1>5, <2>2 DEF RankRight
  <2> QED BY <2>1, <2>2
<1>7. InStep'
  <2>1. ASSUME NEW q \in Members
        PROVE  Exchanges(q)' = Exchanges(q) + 0 /\ Reductions(q)' = Reductions(q) + 0
    <3>1. forward[q] \in Nat
      BY <1>3
    <3> QED BY <1>2, <1>4, <3>1 DEF Exchanges, Reductions
  <2> DEFINE E == {}
  <2>2. /\ \A q \in Members : Exchanges(q)' = Exchanges(q) + (IF q \in E THEN 1 ELSE 0)
        /\ \A q \in Members : Reductions(q)' = Reductions(q) + (IF q \in E THEN 1 ELSE 0)
        /\ E = {}
    BY <2>1
  <2> HIDE DEF E
  <2> QED BY <1>2, <2>2, Advance
<1>8. LayoutRight' /\ Members' = Members
  BY <1>1, <1>2, Fixed
<1>9. RanksTyped'
  BY <1>2, <1>3, <1>4, <1>8 DEF RanksTyped
<1>10. RanksRight'
  BY <1>6, <1>8 DEF RanksRight
<1> QED BY <1>7, <1>8, <1>9, <1>10 DEF DispatchInv

LEMMA DispatchInitial ==
  ASSUME DispatchInit
  PROVE  DispatchInv
<1>1. /\ LayoutRight /\ Forwards \in Nat \ {0}
      /\ forward = [r \in Members |-> 1] /\ stage = [r \in Members |-> "prepare"]
      /\ DOMAIN sent = Members /\ DOMAIN got = Members /\ DOMAIN results = Members
  BY DispatchAssumption DEF DispatchInit, LayoutRight
<1>2. RanksTyped
  BY <1>1 DEF RanksTyped
<1>3. RanksRight
  <2> SUFFICES ASSUME NEW r \in Members PROVE RankRight(r)
    BY DEF RanksRight
  <2>1. stage[r] = "prepare" /\ forward[r] = 1 /\ 1 \in 1..Forwards
    BY <1>1
  <2> QED BY <2>1 DEF RankRight
<1>4. InStep
  <2>1. \A r \in Members : Exchanges(r) = 2 /\ Reductions(r) = 1
    BY <1>1 DEF Exchanges, Reductions
  <2>2. \A r \in Members : (\A q \in CommGroup(r) : q \in Members)
                           /\ \A q \in ReduceGroup(r) : q \in Members
    BY <1>1, Peers, Reducers
  <2> QED BY <2>1, <2>2 DEF InStep
<1> QED BY <1>1, <1>2, <1>3, <1>4 DEF DispatchInv

LEMMA DispatchStep ==
  ASSUME DispatchInv, [DispatchNext]_dispatchVars
  PROVE  DispatchInv'
<1>1. CASE UNCHANGED dispatchVars
  <2>1. /\ layout' = layout /\ batches' = batches /\ forward' = forward /\ stage' = stage
        /\ sent' = sent /\ got' = got /\ results' = results
    BY <1>1 DEF dispatchVars
  <2>2. /\ LayoutRight' /\ Members' = Members
        /\ \A r : CommGroup(r)' = CommGroup(r) /\ ReduceGroup(r)' = ReduceGroup(r)
    BY <2>1, Fixed DEF DispatchInv
  <2>3. RanksTyped'
    BY <2>1, <2>2 DEF DispatchInv, RanksTyped
  <2>4. \A q \in Members : RankRight(q)'
    BY <2>1, Untouched
  <2>5. RanksRight'
    BY <2>2, <2>4 DEF RanksRight
  <2>6. InStep'
    BY <2>1, <2>2 DEF DispatchInv, InStep, Exchanges, Reductions
  <2> QED BY <2>2, <2>3, <2>5, <2>6 DEF DispatchInv
<1>2. ASSUME NEW r \in Members,
             \/ Prepare(r) \/ Dispatch(r) \/ Experts(r) \/ Combine(r) \/ Reduce(r)
             \/ NextLayer(r)
      PROVE  DispatchInv'
  BY <1>2, PrepareKeeps, DispatchKeeps, ExpertsKeeps, CombineKeeps, ReduceKeeps, NextLayerKeeps
<1> QED BY <1>1, <1>2 DEF DispatchNext

\* At home, the answers are the ones that a round trip promises.
LEMMA TripsRight ==
  ASSUME DispatchInv
  PROVE  RoundTrip
<1> SUFFICES ASSUME NEW r \in Members
             PROVE  /\ stage[r] # "assertion"
                    /\ stage[r] = "home" =>
                        results[r] = [i \in 1..Count(r) |->
                            [token |-> Token(r, i), counts |-> [q \in Members |-> 1]]]
  BY DEF RoundTrip
<1> DEFINE f == forward[r]
<1>1. /\ stage[r] # "assertion"
      /\ stage[r] = "home" => results[r] = Answered(OwnTokens(f, r), Members)
  BY DEF DispatchInv, RanksRight, RankRight
<1>2. Count(r) = CountAt(f, r) /\ \A i : Token(r, i) = TokenAt(f, r, i)
  BY DEF Count, CountAt, Token, TokenAt
<1>3. \A t : Answer(t, Members) = [token |-> t, counts |-> [q \in Members |-> 1]]
  BY DEF Answer
<1>4. Answered(OwnTokens(f, r), Members) =
        [i \in 1..CountAt(f, r) |->
            [token |-> TokenAt(f, r, i), counts |-> [q \in Members |-> 1]]]
  BY <1>3 DEF Answered, OwnTokens
<1> QED BY <1>1, <1>2, <1>4

DispatchSpec == DispatchInit /\ [][DispatchNext]_dispatchVars

\* However the ranks interleave, every rank gets its own tokens back in its own order, each
\* answered once by every rank that holds experts, and no count contradicts the sizes that
\* the forward context keeps (AgRsAll2AllManager, the naive prepare and finalize, and the
\* runner's final all-reduce).
THEOREM RoundTrips == DispatchSpec => []RoundTrip
<1>1. DispatchInit => DispatchInv
  BY DispatchInitial
<1>2. DispatchInv /\ [DispatchNext]_dispatchVars => DispatchInv'
  BY DispatchStep
<1>3. DispatchInv => RoundTrip
  BY TripsRight
<1> QED BY <1>1, <1>2, <1>3, PTL DEF DispatchSpec

=============================================================================
