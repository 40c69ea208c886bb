---------------------------- MODULE CompileCache ----------------------------
(* What a restart keeps.  The runner's forward is traced once, and two       *)
(* answers of the plan, "the output is reduced" and "the shared half is      *)
(* folded in", are baked into the graph; the op that the graph calls asks    *)
(* the plan of its own process.  The graph is kept across restarts under a   *)
(* key made of the environment (envs.compile_factors), so a later process    *)
(* may run an earlier one's answers.  The two sides divide the work of       *)
(* scaling, adding and summing between them: when they disagree, a half is   *)
(* dropped, added twice, summed twice or not summed.                         *)
(*                                                                           *)
(* The environment, the library's file and the cache outlive the process.    *)
(* The layer has shared experts.                                             *)
EXTENDS Naturals, FiniteSets

CONSTANTS
    Paths,          \* values of VLLM_PREFILL_MONOKERNEL_SO
    Builds,         \* builds of the library: [fits, fused, residual]
    Strict,         \* the service starts with validate_environ(hard_fail = True)
    Rebuilds,       \* the file at a path may be replaced between two starts
    NumStarts       \* bound: starts of the service

ASSUME CacheAssumption ==
    /\ Paths # {} /\ Builds \subseteq [fits : BOOLEAN, fused : BOOLEAN, residual : BOOLEAN]
    /\ Strict \in BOOLEAN /\ Rebuilds \in BOOLEAN
    /\ NumStarts \in Nat

VARIABLES
    environ,    \* os.environ of the next start: name -> value
    files,      \* path -> the build that lies there
    cache,      \* key -> the answers in the graph kept under it
    process,    \* "down", "raised" or "up"
    live,       \* the answers of the plan of this process
    traced,     \* the answers in the graph it runs
    output,     \* the layer's last output: the terms it is the sum of
    starts

cacheVars == << environ, files, cache, process, live, traced, output, starts >>

-----------------------------------------------------------------------------
(* The environment and the key.                                              *)

\* The variables that bear on the answers, and one that does not.
Listed == {"use", "so", "fuse", "log"}
Unlisted == {"fold", "ncomm"}
Names == Listed \cup Unlisted

\* A value that int() refuses; a variable that is not set.
Bad == "bad"
Unset == "unset"

Values(name) ==
    CASE name = "so" -> Paths
      [] name \in {"use", "fuse"} -> {Unset, "0", "1", Bad}
      [] name = "log" -> {"info", "debug"}
      [] name = "fold" -> {Unset, "0"}
      [] name = "ncomm" -> {Unset, "above"}

MutIgnored == {"log", "fuse"}
Ignored == {"log"}

\* The getter of a name: a flag's default fills in for an unset variable.
Getter(name) ==
    IF name = "use" /\ environ[name] = Unset THEN "1"
    ELSE IF name = "fuse" /\ environ[name] = Unset THEN "0"
    ELSE environ[name]

\* compile_factors: what is listed, not ignored, and does not raise.
Factors == {n \in Listed \ Ignored : Getter(n) # Bad}
Key == {<< n, Getter(n) >> : n \in Factors}

\* validate_environ.
Refuses == Strict /\ \E n \in Unlisted : environ[n] # Unset

-----------------------------------------------------------------------------
(* The start.                                                                *)

NoAnswers == [reduced |-> FALSE, folds |-> FALSE]

CacheInit ==
    /\ environ = [n \in Names |-> CASE n = "so" -> CHOOSE p \in Paths : TRUE
                                    [] n = "log" -> "info"
                                    [] OTHER -> Unset]
    /\ files \in [Paths -> Builds]
    /\ cache = {}
    /\ process = "down"
    /\ live = NoAnswers /\ traced = NoAnswers
    /\ output = {}
    /\ starts = 0

SetVariable ==
    /\ process # "up"
    /\ \E n \in Names : \E v \in Values(n) : environ' = [environ EXCEPT ![n] = v]
    /\ UNCHANGED << files, cache, process, live, traced, output, starts >>

Replace ==
    /\ process # "up"
    /\ Rebuilds
    /\ \E p \in Paths : \E b \in Builds : files' = [files EXCEPT ![p] = b]
    /\ UNCHANGED << environ, cache, process, live, traced, output, starts >>

TheBuild == files[environ["so"]]

\* The gate at the load lets the monokernel in, and builds the plan.
GateOpen == Getter("use") = "1" /\ TheBuild.fits

Usable == Getter("fuse") = "1" /\ TheBuild.fused /\ environ["ncomm"] # "above"
FoldShared == environ["fold"] # "0" /\ TheBuild.residual

LiveAnswers ==
    [reduced |-> GateOpen /\ Usable,
     folds |-> GateOpen /\ Usable /\ FoldShared]

\* A flag that does not parse raises where it is first read: VLLM_USE_..., then,
\* when the plan is built, VLLM_..._TP_FUSE.
LoadRaises == Getter("use") = Bad \/ (GateOpen /\ Getter("fuse") = Bad)

\* A graph kept under the key is taken as it is; else forward is traced now,
\* with the answers of the plan that has just been built.
Start ==
    /\ process # "up"
    /\ starts < NumStarts
    /\ starts' = starts + 1
    /\ output' = {}
    /\ IF Refuses \/ LoadRaises
       THEN process' = "raised" /\ UNCHANGED << cache, live, traced >>
       ELSE /\ process' = "up"
            /\ live' = LiveAnswers
            /\ IF \E e \in cache : e.key = Key
               THEN /\ traced' = (CHOOSE e \in cache : e.key = Key).answers
                    /\ UNCHANGED cache
               ELSE /\ traced' = LiveAnswers
                    /\ cache' = cache \cup {[key |-> Key, answers |-> LiveAnswers]}
    /\ UNCHANGED << environ, files >>

\* The process ends, in order or not; what was compiled is on disk.
Stop ==
    /\ process = "up"
    /\ process' = "down"
    /\ live' = NoAnswers /\ traced' = NoAnswers /\ output' = {}
    /\ UNCHANGED << environ, files, cache, starts >>

-----------------------------------------------------------------------------
(* A forward.  A term is a half with the place that added it, how often it   *)
(* was summed over the ranks and how often scaled.                           *)

Term(half, place) == [half |-> half, by |-> place, sums |-> 0, scale |-> 0]
Summed(terms) == {[t EXCEPT !.sums = @ + 1] : t \in terms}
Scale(terms) == {IF t.half = "routed" THEN [t EXCEPT !.scale = @ + 1] ELSE t : t \in terms}

Halves(folded, place) ==
    IF folded THEN Scale({Term("routed", "op"), Term("shared", place)})
    ELSE {Term("routed", "op")}

\* The op: the fused epilogue, or the ordinary kernel with the reduce that the
\* live plan's declaration makes it owe.
RoutedSlot(fused) ==
    IF fused THEN Summed(Halves(live.folds, "epilogue"))
    ELSE IF live.reduced THEN Summed(Halves(live.folds, "op"))
    ELSE Halves(FALSE, "op")

\* The traced side's reduce, scale and add, by the answers in the graph.
SharedSlot ==
    IF traced.folds THEN {}
    ELSE IF traced.reduced THEN Summed({Term("shared", "graph")})
    ELSE {Term("shared", "graph")}

ScaledSlot(slot) == IF traced.folds THEN slot ELSE Scale(slot)

Added(slot) == ScaledSlot(slot) \cup SharedSlot

Result(slot) == IF traced.reduced THEN Added(slot) ELSE Summed(Added(slot))

\* The sizes in the plan's table are fused, the others are not.
RunLayer ==
    /\ process = "up"
    /\ \E fused \in BOOLEAN :
        /\ fused => live.reduced
        /\ output' = Result(RoutedSlot(fused))
    /\ UNCHANGED << environ, files, cache, process, live, traced, starts >>

CacheNext == SetVariable \/ Replace \/ Start \/ Stop \/ RunLayer

CacheSpec == CacheInit /\ [][CacheNext]_cacheVars

-----------------------------------------------------------------------------
(* Properties.                                                               *)

Halved(half) == {t \in output : t.half = half}

\* After any history of restarts with other variables, every layer output holds
\* the routed half once, scaled once, the shared half once, and both summed
\* over the ranks once: the graph a process takes from the cache divides the
\* work with the op the way its own plan does ("the two callers must never
\* disagree and the failure mode of disagreement is a double reduce").
RestartKeepsOutput ==
    output # {} =>
        /\ \A t \in output : t.sums = 1
        /\ Cardinality(Halved("routed")) = 1
        /\ \A t \in Halved("routed") : t.scale = 1
        /\ Cardinality(Halved("shared")) = 1

=============================================================================
