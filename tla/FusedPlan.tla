------------------------------ MODULE FusedPlan ------------------------------
(* How the ranks of a tensor-parallel group decide to run the fused epilogue *)
(* (fused_moe/monokernel_tp.py, called from quantization/fp8.py): at weight  *)
(* load each rank checks its own binary and environment, the ranks vote, and *)
(* every later forward decides from the outcome without asking anybody.      *)
(*                                                                           *)
(* A rank that waits in a collective its peers do not join waits for ever,   *)
(* inside a kernel or in NCCL.  What an environment may differ in from rank  *)
(* to rank is a constant, because the code says of each input whether it is  *)
(* uniform.                                                                  *)
EXTENDS Naturals

CONSTANTS
    Ranks,
    Sizes,          \* token counts of a forward
    MaxTokens,      \* max_num_batched_tokens
    SharedFirst,    \* token counts at which the shared experts run first
    Tables,         \* chunk tables: token count -> chunks, 0 when absent
    Ncomms,         \* communication block counts
    Binaries,       \* what a loaded .so reports: [fused, devseq, maxC, grid, residual]
    Local,          \* inputs that may differ from rank to rank
    NumCalls        \* bound: forwards after the load

Inputs == {"enable", "binary", "table", "ncomm", "gate", "malformed"}
Binary == [fused : BOOLEAN, devseq : BOOLEAN, maxC : Nat, grid : Nat, residual : BOOLEAN]

ASSUME PlanAssumption ==
    /\ Sizes \subseteq Nat /\ SharedFirst \subseteq Sizes
    /\ MaxTokens \in Nat /\ NumCalls \in Nat
    /\ Tables \subseteq [Sizes -> Nat]
    /\ Ncomms \subseteq Nat \ {0}
    /\ Binaries \subseteq Binary
    /\ Local \subseteq Inputs

VARIABLES
    env,    \* rank -> its environment and what its gate and binary answer
    calls,  \* the token counts of the forwards; TP replicates the batch
    pc,     \* rank -> where it is
    plan,   \* rank -> what the plan says: usable, fold_shared
    call    \* rank -> the forward it is in or will make next

vars == << env, calls, pc, plan, call >>

Environments ==
    [enable : BOOLEAN, binary : Binaries, table : Tables, ncomm : Ncomms,
     gate : BOOLEAN, malformed : BOOLEAN]

NoPlan == [usable |-> FALSE, fold |-> FALSE]

Init ==
    /\ env \in [Ranks -> Environments]
    /\ \A i \in Inputs \ Local : \A q, r \in Ranks : env[q][i] = env[r][i]
    /\ calls \in [1..NumCalls -> Sizes]
    /\ pc = [r \in Ranks |-> "load"]
    /\ plan = [r \in Ranks |-> NoPlan]
    /\ call = [r \in Ranks |-> 1]

-----------------------------------------------------------------------------
(* Weight load.                                                              *)

\* process_weights_after_loading builds the plan only where the rank's own
\* geometry gate let the monokernel in.
MutReachesPlan(r) == env[r].gate /\ env[r].enable
ReachesPlan(r) == env[r].gate

Load(r) ==
    /\ pc[r] = "load"
    /\ pc' = [pc EXCEPT ![r] = CASE ~ ReachesPlan(r) -> "serve"
                                 [] ReachesPlan(r) /\ env[r].malformed -> "raised"
                                 [] OTHER -> "vote"]
    /\ UNCHANGED << env, calls, plan, call >>

\* chunks_by_tokens: the table's entries that fit the batch limit.
ChunksFor(r, n) == IF n <= MaxTokens THEN env[r].table[n] ELSE 0

Capable(r) ==
    LET b == env[r].binary IN
    /\ env[r].enable
    /\ \E n \in Sizes : ChunksFor(r, n) # 0
    /\ b.fused
    /\ b.devseq
    /\ \A n \in Sizes : ChunksFor(r, n) <= b.maxC
    /\ env[r].ncomm < b.grid

\* MIN over the ranks' answers.
MutMinOf(answers, r) == answers[r]
MinOf(answers, r) == \A q \in Ranks : answers[q]

RunOK == [r \in Ranks |-> Capable(r)]
FoldOK == [r \in Ranks |-> Capable(r) /\ env[r].binary.residual]

\* The vote returns when every rank is in it.  On a yes the pool follows.
Vote ==
    /\ \A r \in Ranks : pc[r] = "vote"
    /\ plan' = [r \in Ranks |->
            [usable |-> FALSE, fold |-> MinOf(RunOK, r) /\ MinOf(FoldOK, r)]]
    /\ pc' = [r \in Ranks |-> IF MinOf(RunOK, r) THEN "rendezvous" ELSE "serve"]
    /\ UNCHANGED << env, calls, call >>

\* The rendezvous returns when every rank is in it, and succeeds on all or none.
Rendezvous ==
    /\ \A r \in Ranks : pc[r] = "rendezvous"
    /\ \E ok \in BOOLEAN : plan' = [r \in Ranks |-> [plan[r] EXCEPT !.usable = ok]]
    /\ pc' = [r \in Ranks |-> "serve"]
    /\ UNCHANGED << env, calls, call >>

-----------------------------------------------------------------------------
(* Forwards.                                                                 *)

Size(r) == calls[call[r]]

\* fused_tp_launch does not return None.
TakesFused(r) ==
    /\ plan[r].usable
    /\ ChunksFor(r, Size(r)) # 0
    /\ plan[r].fold => Size(r) \in SharedFirst

\* The rank enters the fused kernel, or computes alone and enters the reduce.
Forward(r) ==
    /\ pc[r] = "serve"
    /\ call[r] <= NumCalls
    /\ pc' = [pc EXCEPT ![r] = IF TakesFused(r) THEN "kernel" ELSE "reduce"]
    /\ UNCHANGED << env, calls, plan, call >>

\* What the fused kernels of the ranks have to agree on.
KernelArguments(r) == << ChunksFor(r, Size(r)), env[r].ncomm, plan[r].fold >>

\* A collective returns when every rank is in the same one.
Together(place) ==
    /\ \A r \in Ranks : pc[r] = place
    /\ \A q, r \in Ranks : call[q] = call[r]
    /\ place = "kernel" => \A q, r \in Ranks : KernelArguments(q) = KernelArguments(r)

Return ==
    /\ \E place \in {"kernel", "reduce"} : Together(place)
    /\ pc' = [r \in Ranks |-> "serve"]
    /\ call' = [r \in Ranks |-> call[r] + 1]
    /\ UNCHANGED << env, calls, plan >>

Served == \A r \in Ranks : pc[r] = "serve" /\ call[r] > NumCalls

\* An environment that parses nowhere ends every process at the load.
AllRaised == \A r \in Ranks : pc[r] = "raised"

Next ==
    \/ \E r \in Ranks : Load(r) \/ Forward(r)
    \/ Vote \/ Rendezvous \/ Return
    \/ (Served \/ AllRaised) /\ UNCHANGED vars

Spec == Init /\ [][Next]_vars

\* Ranks run, and a collective that everybody has joined completes.
FairSpec ==
    /\ Spec
    /\ \A r \in Ranks : WF_vars(Load(r)) /\ WF_vars(Forward(r))
    /\ WF_vars(Vote) /\ WF_vars(Rendezvous) /\ WF_vars(Return)

-----------------------------------------------------------------------------
(* Properties.                                                               *)

InForward(r) == pc[r] \in {"kernel", "reduce"}

\* In the same forward all ranks take the same path ("returning None is a
\* rank-uniform outcome"): nobody spins in the fused kernel for a peer that is
\* in the ordinary reduce.
DecisionUniform ==
    \A q, r \in Ranks :
        InForward(q) /\ InForward(r) /\ call[q] = call[r] => pc[q] = pc[r]

\* A rank in the fused kernel has peers that are all able to join it, and that
\* fold the shared half exactly when it does.
PeersCanJoin ==
    \A q, r \in Ranks : pc[r] = "kernel" =>
        /\ Capable(q) /\ plan[q].usable
        /\ plan[q].fold = plan[r].fold

\* No rank ever waits for a peer that cannot come to the same place.
PathsAgree == DecisionUniform /\ PeersCanJoin

\* The load and every forward come to an end on every rank: no vote, no
\* rendezvous, kernel or reduce waits for a rank that went elsewhere.
NobodyStranded == <>(Served \/ AllRaised)

=============================================================================
