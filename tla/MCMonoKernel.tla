---------------------------- MODULE MCMonoKernel ----------------------------
(* The prefill kernel, and its tile pipeline, each checked while the other   *)
(* rests.                                                                    *)
(*                                                                           *)
(* Two blocks of one warp, three experts of which expert 1 is on another     *)
(* rank, tiles of two rows.  In the routings an expert gets a full tile and  *)
(* a ragged one, a tile serves two tokens, an expert gets nothing, and the   *)
(* two launches disagree on which slots are owned.  A launch of four tokens  *)
(* is refused: its tiles might not fit.                                      *)
(*                                                                           *)
(* A block's two tiles, by two warpgroups of two warps.  The rings are       *)
(* shorter than a phase has steps, and the ring of A has another length than *)
(* a row has k-blocks, so that a slot left as it was holds another block.    *)
EXTENDS MonoKernel, TilePipeline

MCExpertMap == [e \in Experts |-> CASE e = 0 -> 1 [] e = 1 -> -1 [] OTHER -> 0]

Choice(pairs) == [i \in Slots |-> pairs[(i \div TopK) + 1][(i % TopK) + 1]]

MCRoutings == {
    Choice(<< << 0, 2 >>, << 2, 0 >>, << 0, 1 >>, << 2, 0 >> >>),
    Choice(<< << 1, 0 >>, << 0, 1 >>, << 0, 2 >>, << 2, 0 >> >>),
    Choice(<< << 2, 1 >>, << 1, 2 >>, << 1, 2 >>, << 2, 0 >> >>)}

KernelRests == Init /\ logits = Choice(<< << 0, 2 >>, << 2, 0 >>, << 0, 1 >>, << 2, 0 >> >>)

\* The part that moves: "kernel" or "tiles".
VARIABLE part
bothVars == << part, vars, pipeVars >>

BothInit ==
    /\ PipeInit
    /\ \/ part = "kernel" /\ Init
       \/ part = "tiles" /\ KernelRests
BothNext ==
    /\ UNCHANGED part
    /\ \/ part = "kernel" /\ Next /\ UNCHANGED pipeVars
       \/ part = "tiles" /\ PipeNext /\ UNCHANGED vars

\* What the kernel's Fairness says, while it moves.
Moves(A) == part = "kernel" /\ A /\ UNCHANGED << part, pipeVars >>
BothSpec ==
    /\ BothInit /\ [][BothNext]_bothVars
    /\ \A t \in Tokens : WF_bothVars(Moves(Route(t))) /\ WF_bothVars(Moves(Sum(t)))
    /\ \A q \in Rows : WF_bothVars(Moves(Quantize(q)))
    /\ WF_bothVars(Moves(Schedule))
    /\ \A i \in Slots : WF_bothVars(Moves(Fetch(i))) /\ WF_bothVars(Moves(Store(i)))
    /\ \A b \in Blocks :
        /\ WF_bothVars(Moves(RunTile(b)))
        /\ WF_bothVars(Moves(SyncArrive(b))) /\ WF_bothVars(Moves(SyncLeave(b)))

=============================================================================
